---- MODULE Spec2Model ----
(***************************************************************************)
(* A model of cmv (claude-code-cmv): the transcript trimmer, the master    *)
(* index store, and the snapshot / branch / import operations that use it. *)
(*                                                                         *)
(* A JSON string is modelled by what the code reads of it: its length and  *)
(* whether it is one of the stub texts the trimmer writes.  A JSONL file   *)
(* is the sequence of its lines; a line is blank, unparsable, or a parsed  *)
(* record with the fields the code inspects.                               *)
(***************************************************************************)
EXTENDS Integers, Sequences, FiniteSets, TLC

VARIABLES
    \* ---- trimmer run ----
    src,        \* the source transcript: [lines, eofNl]
    opt,        \* TrimOptions.threshold: [given, value]
    phase,      \* "ready" -> "trimmed" -> "retrimmed"
    dst,        \* lines of the destination file of the first run
    metrics,    \* TrimMetrics of the first run
    dst2,       \* lines of the destination file when dst is trimmed again
    metrics2,   \* TrimMetrics of the second run
    analysis,   \* the SessionAnalysis analyzeSession returned for src
    \* ---- the store (~/.cmv) and the host project directory ----
    indexFile,  \* ~/.cmv/index.json: [present, snaps]
    snapDirs,   \* the directories under ~/.cmv/snapshots
    hostFiles,  \* the <session_id>.jsonl files of the host project directory
    hostIndex,  \* its sessions-index.json: [state, entries]
    pc,         \* where each process is in the operation it runs
    loc,        \* the local variables of that operation
    nextId,     \* the ids generated so far (generateSnapshotId, generateUUID)
    started,    \* the number of operations started
    \* ---- the auto-trim hook ----
    hookPc,     \* where the hook's action is
    stdin,      \* what the hook finds on stdin
    checkSize,  \* opts.checkSize
    config,     \* the autoTrim object of the config file
    transcript, \* the file at input.transcript_path
    tmpFile,    \* the file at transcriptPath + '.cmv-trim-tmp'
    backups,    \* the files of auto-backups/
    trimLog,    \* the number of entries of the auto-trim log
    clock,      \* new Date(), in milliseconds
    exitCode,   \* the exit status of the hook's process
    hookRuns,   \* the number of hook executions
    other,      \* another execution of the hook on the same transcript
    \* ---- calls made outside the operations above ----
    rotation,   \* a call of rotateBackups: [state, maxKeep, before, deleted]
    capture,    \* createSnapshot deciding whether its source is active
    jsonl,      \* the lines of the file a SessionWatcher watches
    watcher     \* the SessionWatcher, its timer and its readNew calls in progress

trimVars == <<src, opt, phase, dst, metrics, dst2, metrics2, analysis>>
storeVars == <<indexFile, snapDirs, hostFiles, hostIndex, pc, loc, nextId, started>>
hookVars == <<hookPc, stdin, checkSize, config, transcript, tmpFile, backups, trimLog,
              clock, exitCode, hookRuns, other>>
watchVars == <<jsonl, watcher>>
auxVars == <<rotation, capture, watchVars>>
vars == <<trimVars, storeVars, hookVars, auxVars>>

\* None of the calls of auxVars is made.
NoRotation == [state |-> "none", maxKeep |-> 0, before |-> {}, deleted |-> 0]
NoCapture ==
    [state |-> "none", now |-> 0, fileMtime |-> 0, lockDir |-> FALSE, locks |-> {},
     active |-> FALSE, warnings |-> 0, session_active_at_capture |-> FALSE]
\* A SessionWatcher as constructed; calls are the pending readNew calls and
\* event says that a callback of fs.watch is due.
NewWatcher(maxMessages) ==
    [messages |-> <<>>, bytesRead |-> 0, watching |-> FALSE, debounceTimer |-> FALSE,
     maxMessages |-> maxMessages, event |-> FALSE, calls |-> {}, called |-> 0]
WatchIdle ==
    /\ jsonl = <<>>
    /\ watcher = NewWatcher(0)
AuxIdle ==
    /\ rotation = NoRotation
    /\ capture = NoCapture
    /\ WatchIdle

(***************************************************************************)
(* JSON values                                                             *)
(***************************************************************************)

\* A value is <<kind, n>>: "raw" an ordinary string of n characters, "stubR" the
\* text `[Trimmed tool result: ~n chars]`, "stubI" the text
\* `[Trimmed input: ~n chars]`, "obj" a non-string value whose JSON text has n
\* characters, "none" an absent value.
Raw(n) == <<"raw", n>>
Obj(n) == <<"obj", n>>
NoVal == <<"none", 0>>

RECURSIVE Digits(_)
Digits(n) == IF n < 10 THEN 1 ELSE 1 + Digits(n \div 10)

\* `[Trimmed tool result: ~${n} chars]`
ToolResultStub(n) == <<"stubR", n>>
\* `[Trimmed input: ~${n} chars]`
ToolInputStub(n) == <<"stubI", n>>

IsString(v) == v[1] \in {"raw", "stubR", "stubI"}

\* String.prototype.length
StrLength(v) ==
    CASE v[1] = "raw" -> v[2]
      [] v[1] = "stubR" -> 30 + Digits(v[2])
      [] v[1] = "stubI" -> 24 + Digits(v[2])
      [] OTHER -> 0

\* JSON.stringify(v).length
JsonLen(v) ==
    CASE IsString(v) -> StrLength(v) + 2
      [] v[1] = "obj" -> v[2]
      [] OTHER -> 0

Max(a, b) == IF a >= b THEN a ELSE b

RECURSIVE SumSeq(_)
SumSeq(s) == IF s = <<>> THEN 0 ELSE Head(s) + SumSeq(Tail(s))

(***************************************************************************)
(* Content blocks                                                          *)
(***************************************************************************)

\* A sub-block of a tool_result's array content.
SubText(v) == [type |-> "text", text |-> v, sz |-> 25 + StrLength(v)]
SubImage(n) == [type |-> "image", text |-> NoVal, sz |-> n]
SubOther(n) == [type |-> "other", text |-> NoVal, sz |-> n]

\* tool_result.content: a string, an array of sub-blocks, or absent.
RcStr(v) == [kind |-> "str", str |-> v, arr |-> <<>>]
RcArr(a) == [kind |-> "arr", str |-> NoVal, arr |-> a]
RcNone == [kind |-> "none", str |-> NoVal, arr |-> <<>>]

\* One key of a tool_use input object, in Object.entries order.
Field(k, v) == [k |-> k, v |-> v]

Block(t) ==
    [type |-> t, id |-> "", name |-> "", text |-> NoVal, sig |-> NoVal,
     hasInput |-> FALSE, input |-> <<>>, rc |-> RcNone]

TextBlock(v) == [Block("text") EXCEPT !.text = v]
\* A thinking block carries its text and a signature.
ThinkingBlock(v) == [Block("thinking") EXCEPT !.text = v, !.sig = Raw(4)]
ToolUse(id, name, input) ==
    [Block("tool_use") EXCEPT !.id = id, !.name = name, !.hasInput = TRUE, !.input = input]
ToolResult(id, rc) == [Block("tool_result") EXCEPT !.id = id, !.rc = rc]

RcLen(rc) ==
    CASE rc.kind = "str" -> 11 + JsonLen(rc.str)
      [] rc.kind = "arr" ->
            13 + SumSeq([i \in 1..Len(rc.arr) |-> rc.arr[i].sz]) + Max(Len(rc.arr) - 1, 0)
      [] OTHER -> 0

InputLen(input) ==
    2 + SumSeq([i \in 1..Len(input) |-> Len(input[i].k) + 3 + JsonLen(input[i].v)])
      + Max(Len(input) - 1, 0)

\* JSON.stringify(block).length
BlockLen(b) ==
    CASE b.type = "text" -> 25 + StrLength(b.text)
      [] b.type = "thinking" ->
            29 + StrLength(b.text) + (IF b.sig # NoVal THEN 13 + JsonLen(b.sig) ELSE 0)
      [] b.type = "tool_use" ->
            37 + Len(b.id) + Len(b.name) + (IF b.hasInput THEN 9 + InputLen(b.input) ELSE 0)
      [] b.type = "tool_result" -> 39 + Len(b.id) + RcLen(b.rc)
      [] OTHER -> 15 + Len(b.type)

ContentLen(c) == 2 + SumSeq([i \in 1..Len(c) |-> BlockLen(c[i])]) + Max(Len(c) - 1, 0)

(***************************************************************************)
(* Transcript lines                                                        *)
(***************************************************************************)

\* kind: "blank" (line.trim() is empty), "bad" (JSON.parse throws) or "json".
\* For a json line: type, subtype, role are the top-level fields ("" absent);
\* mc is message.content when it is an array (hasMc), mstr when it is a
\* string; c is the top-level content array (hasC); usage / musage say that
\* usage / message.usage is present; summary is the top-level summary, or the
\* top-level content when that is a string; extra is the JSON length of every other
\* field; pad is the whitespace of the source text that JSON.stringify does
\* not reproduce.  mention says that the text of a line that is not itself a
\* marker contains "summary" or "compact_boundary" (a bad line, a quote).
Json(t) ==
    [kind |-> "json", type |-> t, subtype |-> "", role |-> "",
     hasMc |-> FALSE, mc |-> <<>>, mstr |-> NoVal, hasC |-> FALSE, c |-> <<>>,
     usage |-> FALSE, musage |-> FALSE, summary |-> NoVal, extra |-> 0, pad |-> 0,
     len |-> 0, mention |-> FALSE]

BlankLine(n) == [Json("") EXCEPT !.kind = "blank", !.len = n]
BadLine(n, m) == [Json("") EXCEPT !.kind = "bad", !.len = n, !.mention = m]

\* The length of the line's text (without its newline).
LineLen(l) ==
    IF l.kind # "json" THEN l.len
    ELSE 11 + Len(l.type)
         + (IF l.subtype # "" THEN 13 + Len(l.subtype) ELSE 0)
         + (IF l.role # "" THEN 10 + Len(l.role) ELSE 0)
         + (IF l.hasMc THEN 23 + ContentLen(l.mc) ELSE 0)
         + (IF l.mstr # NoVal THEN 23 + JsonLen(l.mstr) ELSE 0)
         + (IF l.musage THEN 27 ELSE 0)
         + (IF l.hasC THEN 11 + ContentLen(l.c) ELSE 0)
         + (IF l.usage THEN 27 ELSE 0)
         + (IF l.summary # NoVal THEN 11 + JsonLen(l.summary) ELSE 0)
         + l.extra + l.pad

\* stat.size of a file holding `lines`, the last one with a newline or not.
FileSize(lines, eofNl) ==
    IF lines = <<>> THEN 0
    ELSE SumSeq([i \in 1..Len(lines) |-> LineLen(lines[i]) + 1]) - (IF eofNl THEN 0 ELSE 1)

\* The record kinds of the data model (role or type).
IsUserMessage(l) == l.kind = "json" /\ (l.role = "user" \/ l.type \in {"user", "human"})
IsAssistantMessage(l) == l.kind = "json" /\ (l.role = "assistant" \/ l.type = "assistant")
IsCompactionMarker(l) ==
    l.kind = "json" /\ (l.type = "summary" \/ (l.type = "system" /\ l.subtype = "compact_boundary"))

(***************************************************************************)
(* The trimmer (src/core/trimmer.ts)                                       *)
(***************************************************************************)

DEFAULT_STUB_THRESHOLD == 500

WRITE_TOOLS == {"Write", "Edit", "NotebookEdit", "MultiEdit"}

PRESERVED_INPUT_FIELDS ==
    {"file_path", "notebook_path", "command", "description", "pattern", "path",
     "url", "skill", "args", "replace_all", "edit_mode", "cell_type", "cell_id"}

\* The four fields the write-tool branch of stubToolUseInput looks at.
WriteToolFields == {"content", "old_string", "new_string", "new_source"}

ZeroMetrics ==
    [originalBytes |-> 0, trimmedBytes |-> 0, toolResultsStubbed |-> 0,
     signaturesStripped |-> 0, fileHistoryRemoved |-> 0, imagesStripped |-> 0,
     toolUseInputsStubbed |-> 0, preCompactionLinesSkipped |-> 0,
     queueOperationsRemoved |-> 0, userMessages |-> 0, assistantResponses |-> 0,
     toolUseRequests |-> 0]

IsLarge(v, threshold) == IsString(v) /\ StrLength(v) > threshold

\* The input with every field of `keys` whose string is longer than the
\* threshold replaced by the stub text.
StubFields(input, Stubbable(_), threshold) ==
    [i \in 1..Len(input) |->
        IF Stubbable(input[i].k) /\ IsLarge(input[i].v, threshold)
        THEN Field(input[i].k, ToolInputStub(StrLength(input[i].v)))
        ELSE input[i]]

AnyLarge(input, Stubbable(_), threshold) ==
    \E i \in 1..Len(input) : Stubbable(input[i].k) /\ IsLarge(input[i].v, threshold)

\* stubToolUseInput: the block and the metrics after the call.
stubToolUseInput(block, threshold, m) ==
    LET InWrite(k) == k \in WriteToolFields
        NotPreserved(k) == k \notin PRESERVED_INPUT_FIELDS
    IN  IF ~block.hasInput THEN [block |-> block, m |-> m]
        ELSE IF block.name \in WRITE_TOOLS /\ AnyLarge(block.input, InWrite, threshold)
        THEN [block |-> [block EXCEPT !.input = StubFields(block.input, InWrite, threshold)],
              m |-> [m EXCEPT !.toolUseInputsStubbed = @ + 1]]
        ELSE IF InputLen(block.input) <= threshold THEN [block |-> block, m |-> m]
        ELSE IF AnyLarge(block.input, NotPreserved, threshold)
        THEN [block |-> [block EXCEPT !.input = StubFields(block.input, NotPreserved, threshold)],
              m |-> [m EXCEPT !.toolUseInputsStubbed = @ + 1]]
        ELSE [block |-> block, m |-> m]

\* The tool_result branch of processContentArray for array content.
StubArrayResult(block, threshold, m) ==
    LET arr == block.rc.arr
        imageBlocks == SelectSeq(arr, LAMBDA c : c.type = "image")
        kept == SelectSeq(arr, LAMBDA c : c.type # "image")
        textLen == SumSeq([i \in 1..Len(kept) |->
                      IF kept[i].type = "text" THEN StrLength(kept[i].text) ELSE kept[i].sz])
        imageLen == SumSeq([i \in 1..Len(imageBlocks) |-> imageBlocks[i].sz])
        m1 == [m EXCEPT !.imagesStripped = @ + Len(imageBlocks)]
    IN  IF textLen + imageLen > threshold
        THEN [block |-> [block EXCEPT
                            !.rc = RcArr(<<SubText(ToolResultStub(textLen + imageLen))>>)],
              m |-> [m1 EXCEPT !.toolResultsStubbed = @ + 1]]
        ELSE [block |-> [block EXCEPT !.rc = RcArr(kept)], m |-> m1]

\* One iteration of the loop of processContentArray.
ProcessBlock(block, threshold, m) ==
    IF block.type = "tool_result" /\ block.rc.kind = "arr"
    THEN StubArrayResult(block, threshold, m)
    ELSE IF block.type = "tool_result" /\ block.rc.kind = "str"
            /\ StrLength(block.rc.str) > threshold
    THEN [block |-> [block EXCEPT !.rc = RcStr(ToolResultStub(StrLength(block.rc.str)))],
          m |-> [m EXCEPT !.toolResultsStubbed = @ + 1]]
    ELSE IF block.type = "tool_use"
    THEN stubToolUseInput(block, threshold, [m EXCEPT !.toolUseRequests = @ + 1])
    ELSE [block |-> block, m |-> m]

\* The block of one iteration in front of the blocks of the later ones.
PushBlock(block, rest) == [content |-> <<block>> \o rest.content, m |-> rest.m]

\* The loop of processContentArray over the blocks of the array, in order.
RECURSIVE ProcessBlocks(_, _, _)
ProcessBlocksAfter(first, later, threshold) ==
    PushBlock(first.block, ProcessBlocks(later, threshold, first.m))

ProcessBlocks(content, threshold, m) ==
    IF content = <<>> THEN [content |-> <<>>, m |-> m]
    ELSE ProcessBlocksAfter(ProcessBlock(Head(content), threshold, m), Tail(content), threshold)

\* The thinking blocks of the looped array counted, and only they kept.
KeepOnlyThinking(looped) ==
    [content |-> SelectSeq(looped.content, LAMBDA b : b.type = "thinking"),
     m |-> [looped.m EXCEPT !.signaturesStripped =
                @ + Len(SelectSeq(looped.content, LAMBDA b : b.type = "thinking"))]]

\* The thinking blocks of the looped array counted and filtered out.
StripThinking(looped) ==
    [content |-> SelectSeq(looped.content, LAMBDA b : b.type # "thinking"),
     m |-> [looped.m EXCEPT !.signaturesStripped =
                @ + Len(SelectSeq(looped.content, LAMBDA b : b.type = "thinking"))]]

\* processContentArray with the final filter inverted: only thinking blocks kept.
processContentArrayInverted(content, threshold, m) ==
    KeepOnlyThinking(ProcessBlocks(content, threshold, m))

\* processContentArray: the returned array and the metrics after the call.
processContentArray(content, threshold, m) ==
    StripThinking(ProcessBlocks(content, threshold, m))

\* Pass 1's test of one line: the cheap string check, then the parse.
MarksCompaction(l) ==
    /\ l.kind # "blank"
    /\ (l.mention \/ l.type = "summary" \/ l.subtype = "compact_boundary")
    /\ l.kind = "json"
    /\ (l.type = "summary" \/ (l.type = "system" /\ l.subtype = "compact_boundary"))

\* Pass 1: the 0-based number of the last compaction boundary line, or -1.
RECURSIVE ScanFrom(_, _, _)
ScanFrom(lines, lineNum, last) ==
    IF lineNum >= Len(lines) THEN last
    ELSE ScanFrom(lines, lineNum + 1,
                  IF MarksCompaction(lines[lineNum + 1]) THEN lineNum ELSE last)

\* Pass 1 stopping at the first boundary instead of the last.
FirstCompactionLine(lines) ==
    LET marks == {i \in 1..Len(lines) : MarksCompaction(lines[i])}
    IN  IF marks = {} THEN -1
        ELSE (CHOOSE i \in marks : \A j \in marks : i <= j) - 1

LastCompactionLine(lines) == ScanFrom(lines, 0, -1)

\* Pass 2 on one parsed line that is kept: the message counters by role ...
CountMessage(l, m) ==
    [m EXCEPT !.userMessages =
                 @ + (IF (IF l.role # "" THEN l.role ELSE l.type) \in {"user", "human"}
                      THEN 1 ELSE 0),
              !.assistantResponses =
                 @ + (IF (IF l.role # "" THEN l.role ELSE l.type) = "assistant"
                      THEN 1 ELSE 0)]

SetMessageContent(l, processed) ==
    [line |-> [l EXCEPT !.mc = processed.content], m |-> processed.m]
SetContent(l, processed) ==
    [line |-> [l EXCEPT !.c = processed.content], m |-> processed.m]

\* ... parsed.message.content, when it is an array ...
RewriteMessageContent(l, threshold, m) ==
    IF l.hasMc THEN SetMessageContent(l, processContentArray(l.mc, threshold, m))
    ELSE [line |-> l, m |-> m]

\* ... parsed.content, when it is an array ...
RewriteContent(w, threshold) ==
    IF w.line.hasC THEN SetContent(w.line, processContentArray(w.line.c, threshold, w.m))
    ELSE w

\* ... and the usage fields deleted; JSON.stringify writes the line compact.
StripUsage(w) ==
    [line |-> [w.line EXCEPT !.musage = FALSE, !.usage = FALSE, !.pad = 0], m |-> w.m]

RewriteLine(l, threshold, m) ==
    StripUsage(RewriteContent(RewriteMessageContent(l, threshold, CountMessage(l, m)),
                              threshold))

WriteRewritten(w) == [out |-> <<w.line>>, m |-> w.m]

\* Pass 2 on the line at 0-based position currentLine: what is written for
\* it (nothing, the line as it is, or the rewritten line) and the metrics.
RewriteStep(l, currentLine, lastCompactionLine, threshold, m) ==
    IF l.kind = "blank" THEN [out |-> <<>>, m |-> m]
    ELSE IF lastCompactionLine >= 0 /\ currentLine < lastCompactionLine
    THEN [out |-> <<>>, m |-> [m EXCEPT !.preCompactionLinesSkipped = @ + 1]]
    ELSE IF l.kind = "bad" THEN [out |-> <<l>>, m |-> m]
    ELSE IF l.type = "file-history-snapshot"
    THEN [out |-> <<>>, m |-> [m EXCEPT !.fileHistoryRemoved = @ + 1]]
    ELSE IF l.type = "queue-operation"
    THEN [out |-> <<>>, m |-> [m EXCEPT !.queueOperationsRemoved = @ + 1]]
    ELSE WriteRewritten(RewriteLine(l, threshold, m))

\* Pass 2: the lines written and the metrics, from 0-based line currentLine on.
RECURSIVE RewriteFrom(_, _, _, _, _)
WriteBefore(out, rest) == [out |-> out \o rest.out, m |-> rest.m]

RewriteAfter(step, lines, currentLine, lastCompactionLine, threshold) ==
    WriteBefore(step.out,
                RewriteFrom(lines, currentLine + 1, lastCompactionLine, threshold, step.m))

RewriteFrom(lines, currentLine, lastCompactionLine, threshold, m) ==
    IF currentLine >= Len(lines) THEN [out |-> <<>>, m |-> m]
    ELSE RewriteAfter(RewriteStep(lines[currentLine + 1], currentLine, lastCompactionLine,
                                  threshold, m),
                      lines, currentLine, lastCompactionLine, threshold)

\* Math.max(options.threshold ?? DEFAULT_STUB_THRESHOLD, 50)
StubThreshold(o) == Max(IF o.given THEN o.value ELSE DEFAULT_STUB_THRESHOLD, 50)

\* trimJsonl(sourcePath, destPath, options): the lines of the destination file
\* and the metrics returned.  Every line written ends with a newline.
MeasureBytes(source, r) ==
    [out |-> r.out,
     m |-> [r.m EXCEPT !.originalBytes = FileSize(source.lines, source.eofNl),
                       !.trimmedBytes = FileSize(r.out, TRUE)]]

trimJsonl(source, o) ==
    MeasureBytes(source, RewriteFrom(source.lines, 0, LastCompactionLine(source.lines),
                                     StubThreshold(o), ZeroMetrics))

(***************************************************************************)
(* The analyzer: analyzeSession, the byte accounting of its breakdown       *)
(***************************************************************************)

\* freshBreakdown(): the bytes of the six buckets.
freshBreakdown ==
    [toolResults |-> 0, thinkingSignatures |-> 0, fileHistory |-> 0,
     conversation |-> 0, toolUseRequests |-> 0, other |-> 0]

\* The running totals: activeBytes (returned as totalBytes) and the breakdown.
ZeroAnalysis == [totalBytes |-> 0, breakdown |-> freshBreakdown]

\* parsed.message?.content ?? parsed.content, when it is an array
AnalyzedContent(l) ==
    IF l.hasMc THEN l.mc
    ELSE IF l.mstr # NoVal THEN <<>>
    ELSE IF l.hasC THEN l.c ELSE <<>>

\* The sum of Buffer.byteLength(JSON.stringify(block)) over the blocks of type t.
BlockBytes(content, t) ==
    SumSeq([i \in 1..Len(content) |->
                IF content[i].type = t THEN BlockLen(content[i]) ELSE 0])

\* The sum of Buffer.byteLength(JSON.stringify(block.signature)) over the
\* thinking blocks with a signature that is not empty.
SignatureBytes(content) ==
    SumSeq([i \in 1..Len(content) |->
                IF content[i].type = "thinking" /\ StrLength(content[i].sig) > 0
                THEN JsonLen(content[i].sig) ELSE 0])

\* A line counted into one bucket.
AddBytes(a, bucket, n) ==
    [totalBytes |-> a.totalBytes + n,
     breakdown |-> [a.breakdown EXCEPT ![bucket] = @ + n]]

\* A message line: its tool results, signatures and tool uses into their
\* buckets, Math.max(0, lineBytes - accountedBytes) into conversation or other.
AccountLine(a, l, toolResultBytes, signatureBytes, toolUseBytes) ==
    [totalBytes |-> a.totalBytes + LineLen(l),
     breakdown |->
        [a.breakdown EXCEPT
            !.toolResults = @ + toolResultBytes,
            !.thinkingSignatures = @ + signatureBytes,
            !.toolUseRequests = @ + toolUseBytes,
            ![IF (IF l.role # "" THEN l.role ELSE l.type) \in {"user", "human", "assistant"}
              THEN "conversation" ELSE "other"] =
                @ + Max(0, LineLen(l) - (toolResultBytes + signatureBytes + toolUseBytes))]]

\* The loop body with a compaction marker counted like any other line, the
\* totals not started afresh.
AnalyzeLineNoReset(a, l) ==
    IF l.kind = "blank" THEN a
    ELSE IF l.kind = "bad" THEN AddBytes(a, "other", LineLen(l))
    ELSE IF l.type = "summary" \/ (l.type = "system" /\ l.subtype = "compact_boundary")
    THEN IF IsString(l.summary) THEN AddBytes(a, "conversation", LineLen(l))
         ELSE [a EXCEPT !.totalBytes = @ + LineLen(l)]
    ELSE IF l.type = "file-history-snapshot" THEN AddBytes(a, "fileHistory", LineLen(l))
    ELSE IF l.type = "queue-operation" THEN AddBytes(a, "other", LineLen(l))
    ELSE AccountLine(a, l, BlockBytes(AnalyzedContent(l), "tool_result"),
                     SignatureBytes(AnalyzedContent(l)),
                     BlockBytes(AnalyzedContent(l), "tool_use"))

\* The body of the read loop for one line.  A compaction marker starts the
\* totals afresh with activeBytes = lineBytes; its bytes go to conversation
\* when it has a summary text.
AnalyzeLine(a, l) ==
    IF l.kind = "blank" THEN a
    ELSE IF l.kind = "bad" THEN AddBytes(a, "other", LineLen(l))
    ELSE IF l.type = "summary" \/ (l.type = "system" /\ l.subtype = "compact_boundary")
    THEN IF IsString(l.summary) THEN AddBytes(ZeroAnalysis, "conversation", LineLen(l))
         ELSE [ZeroAnalysis EXCEPT !.totalBytes = LineLen(l)]
    ELSE IF l.type = "file-history-snapshot" THEN AddBytes(a, "fileHistory", LineLen(l))
    ELSE IF l.type = "queue-operation" THEN AddBytes(a, "other", LineLen(l))
    ELSE AccountLine(a, l, BlockBytes(AnalyzedContent(l), "tool_result"),
                     SignatureBytes(AnalyzedContent(l)),
                     BlockBytes(AnalyzedContent(l), "tool_use"))

RECURSIVE AnalyzeFrom(_, _, _)
AnalyzeFrom(lines, i, a) ==
    IF i > Len(lines) THEN a ELSE AnalyzeFrom(lines, i + 1, AnalyzeLine(a, lines[i]))

\* analyzeSession(jsonlPath): totalBytes and breakdown[*].bytes of the result.
analyzeSession(lines) == AnalyzeFrom(lines, 1, ZeroAnalysis)

(***************************************************************************)
(* Trimmer runs: the inputs                                                *)
(***************************************************************************)

MaxCompactionLines == 5
MaxContentLines == 3
MaxThresholdLines == 2

UserLine == [Json("user") EXCEPT !.mstr = Raw(10)]
AssistantLine == [Json("assistant") EXCEPT !.hasMc = TRUE, !.mc = <<TextBlock(Raw(10))>>]
SummaryLine == [Json("summary") EXCEPT !.summary = Raw(12)]
BoundaryLine == [Json("system") EXCEPT !.subtype = "compact_boundary"]
FileHistoryLine == [Json("file-history-snapshot") EXCEPT !.extra = 40]
QueueLine == [Json("queue-operation") EXCEPT !.extra = 30]

\* Lines around compaction boundaries: messages, both kinds of marker, an
\* empty line, a truncated line that mentions "summary", file history.
CompactionAlphabet ==
    {UserLine, AssistantLine, SummaryLine, BoundaryLine, FileHistoryLine,
     BlankLine(0), BadLine(20, TRUE)}

ToolUseLine ==
    [Json("assistant") EXCEPT !.hasMc = TRUE,
        !.mc = <<TextBlock(Raw(10)), ToolUse("t1", "Read", <<Field("file_path", Raw(10))>>)>>]
ToolResultLine ==
    [Json("user") EXCEPT !.hasMc = TRUE, !.mc = <<ToolResult("t1", RcStr(Raw(10)))>>]
BigResultLine ==
    [Json("user") EXCEPT !.hasMc = TRUE, !.mc = <<ToolResult("t1", RcStr(Raw(600)))>>]
ImageResultLine ==
    [Json("user") EXCEPT !.hasMc = TRUE,
        !.mc = <<ToolResult("t1", RcArr(<<SubText(Raw(10)), SubImage(80)>>))>>]
ThinkingLine ==
    [Json("assistant") EXCEPT !.hasMc = TRUE, !.musage = TRUE,
        !.mc = <<ThinkingBlock(Raw(80)), TextBlock(Raw(10))>>]
WriteLine ==
    [Json("assistant") EXCEPT !.hasMc = TRUE,
        !.mc = <<ToolUse("t2", "Write",
                         <<Field("file_path", Raw(10)), Field("content", Raw(600))>>)>>]
WriteNotesLine ==
    [Json("assistant") EXCEPT !.hasMc = TRUE,
        !.mc = <<ToolUse("t2", "Write",
                         <<Field("content", Raw(600)), Field("notes", Raw(600))>>)>>]
BashLine ==
    [Json("assistant") EXCEPT !.hasMc = TRUE,
        !.mc = <<ToolUse("t3", "Bash",
                         <<Field("command", Raw(600)), Field("stdin", Raw(80))>>)>>]
MessageLine ==
    [Json("message") EXCEPT !.role = "assistant", !.hasC = TRUE, !.usage = TRUE,
        !.c = <<TextBlock(Raw(80)), ThinkingBlock(Raw(10))>>]
PaddedUserLine == [Json("user") EXCEPT !.mstr = Raw(80), !.pad = 3]
WriteSmallLine ==
    [Json("assistant") EXCEPT !.hasMc = TRUE,
        !.mc = <<ToolUse("t4", "Write",
                         <<Field("content", Raw(80)), Field("notes", Raw(600))>>)>>]

\* Lines with content blocks the trimmer rewrites, and one marker.
ContentAlphabet ==
    {ToolUseLine, ToolResultLine, BigResultLine, ImageResultLine, ThinkingLine,
     WriteLine, WriteNotesLine, BashLine, MessageLine, PaddedUserLine,
     BoundaryLine, QueueLine}

\* Lines whose rewriting depends on where the threshold lies.
ThresholdAlphabet == {WriteSmallLine, BigResultLine, BashLine, UserLine}

SeqsUpTo(alphabet, n) == UNION {[1..k -> alphabet] : k \in 0..n}

NoThreshold == [given |-> FALSE, value |-> 0]
Threshold(n) == [given |-> TRUE, value |-> n]

\* Without the option (500), below the minimum (50), and 100.
ThresholdOptions == {NoThreshold, Threshold(20), Threshold(100)}

TrimInit ==
    /\ \/ /\ src \in {[lines |-> ls, eofNl |-> TRUE] :
                        ls \in SeqsUpTo(CompactionAlphabet, MaxCompactionLines)}
          /\ opt = NoThreshold
       \/ /\ src \in {[lines |-> ls, eofNl |-> nl] :
                        ls \in SeqsUpTo(ContentAlphabet, MaxContentLines) \ {<<>>},
                        nl \in BOOLEAN}
          /\ opt \in ThresholdOptions
       \/ /\ src \in {[lines |-> ls, eofNl |-> nl] :
                        ls \in SeqsUpTo(ThresholdAlphabet, MaxThresholdLines) \ {<<>>},
                        nl \in BOOLEAN}
          /\ opt \in ThresholdOptions
    /\ phase = "ready"
    /\ dst = <<>>
    /\ metrics = ZeroMetrics
    /\ dst2 = <<>>
    /\ metrics2 = ZeroMetrics
    /\ analysis = ZeroAnalysis

\* The destination file and the returned metrics of the first run.
FirstRun(r) == dst' = r.out /\ metrics' = r.m
\* The destination file and the returned metrics of the second run.
SecondRun(r) == dst2' = r.out /\ metrics2' = r.m

\* trimJsonl(source, dest, options)
Trim ==
    /\ phase = "ready"
    /\ FirstRun(trimJsonl(src, opt))
    /\ phase' = "trimmed"
    /\ UNCHANGED <<src, opt, dst2, metrics2, analysis>>
    /\ UNCHANGED <<storeVars, hookVars, auxVars>>

\* trimJsonl(dest, dest2, options): the first run's output trimmed again.
Retrim ==
    /\ phase = "trimmed"
    /\ SecondRun(trimJsonl([lines |-> dst, eofNl |-> TRUE], opt))
    /\ phase' = "retrimmed"
    /\ UNCHANGED <<src, opt, dst, metrics, analysis>>
    /\ UNCHANGED <<storeVars, hookVars, auxVars>>

TrimNext == Trim \/ Retrim

\* ---- analyzer runs ----

MaxAnalyzeLines == 3

\* A compact_boundary record with its content text.
BoundaryTextLine == [BoundaryLine EXCEPT !.summary = Raw(22)]

\* Messages with every kind of block, both kinds of marker with and without
\* text, file history, queue operations, empty and unparsable lines.
AnalyzeAlphabet ==
    {UserLine, ToolUseLine, BigResultLine, ThinkingLine, MessageLine, SummaryLine,
     BoundaryLine, BoundaryTextLine, FileHistoryLine, QueueLine, BlankLine(0),
     BadLine(20, TRUE)}

AnalyzeInit ==
    /\ src \in {[lines |-> ls, eofNl |-> nl] :
                    ls \in SeqsUpTo(AnalyzeAlphabet, MaxAnalyzeLines), nl \in BOOLEAN}
    /\ opt = NoThreshold
    /\ phase = "ready"
    /\ dst = <<>> /\ metrics = ZeroMetrics
    /\ dst2 = <<>> /\ metrics2 = ZeroMetrics
    /\ analysis = ZeroAnalysis

Analyze ==
    /\ phase = "ready"
    /\ analysis' = analyzeSession(src.lines)
    /\ phase' = "analyzed"
    /\ UNCHANGED <<src, opt, dst, metrics, dst2, metrics2>>
    /\ UNCHANGED <<storeVars, hookVars, auxVars>>

(***************************************************************************)
(* The store: index.json, the snapshot directories, the host project       *)
(* directory.  An operation is a sequence of steps, one per filesystem     *)
(* call that other processes can observe.                                  *)
(***************************************************************************)

MaxOps == 3
MaxIds == 4

Procs == {"p1", "p2"}
MainProc == "p1"
Names == {"a", "b"}

\* Session ids: those of the host's own transcripts and those generateUUID returns.
HostSid(n) == <<"h", n>>
NewSid(n) == <<"b", n>>
NoSid == <<"", 0>>

\* The content of a transcript file: one of two texts, verbatim or trimmed.
\* "chat" has user and assistant messages, "bare" has none.
Content(key) ==
    IF key = "chat" THEN <<FileHistoryLine, UserLine, AssistantLine>>
    ELSE <<FileHistoryLine, BlankLine(0), BadLine(20, TRUE)>>

Verbatim(key) == [key |-> key, trimmed |-> FALSE]

FileLines(c) ==
    IF c.trimmed
    THEN trimJsonl([lines |-> Content(c.key), eofNl |-> TRUE], NoThreshold).out
    ELSE Content(c.key)

\* A <session_id>.jsonl of the host project directory: whose session, what
\* it holds, who made it, and whether all of it has been written.
HostFile(sid, content, origin) ==
    [sid |-> sid, content |-> content, origin |-> origin, written |-> "whole"]
\* The same file while its writer has put down only part of it.
PartFile(sid, content, origin) ==
    [sid |-> sid, content |-> content, origin |-> origin, written |-> "part"]

\* A snapshot directory: <id>/session/<sid>.jsonl (hasFile) and <id>/meta.json
\* (meta), of which mname and mparent are the name and parent_snapshot fields.
SnapDir(id, sid, content, hasFile, meta) ==
    [id |-> id, sid |-> sid, content |-> content, hasFile |-> hasFile, meta |-> meta,
     mname |-> "", mparent |-> ""]
\* The directory once meta.json is written with that name and parent_snapshot.
WithMeta(d, name, parent) == [d EXCEPT !.meta = TRUE, !.mname = name, !.mparent = parent]

\* CmvSnapshot and its branch records, with the fields the operations read.
Snapshot(name, dir, sid, parent) ==
    [name |-> name, dir |-> dir, src |-> sid, parent |-> parent, branches |-> <<>>]
NoSnapshot == Snapshot("", 0, NoSid, "")
Branch(name, sid) == [name |-> name, sid |-> sid]

\* A .cmv archive: meta.json (name, source_session_id, parent_snapshot) and the
\* session file (key, trimmed: its content).
Archive(name, sid, parent, key) ==
    [name |-> name, sid |-> sid, parent |-> parent, key |-> key, trimmed |-> FALSE]
NoArchive == Archive("", NoSid, "", "")
Archives == {Archive("a", HostSid(1), "", "chat"), Archive("b", HostSid(1), "a", "chat")}

NoLoc ==
    [op |-> "none", name |-> "", bname |-> "", sid |-> NoSid, dir |-> 0,
     force |-> FALSE, trim |-> FALSE, mode |-> "", idx |-> {}, hidx |-> <<>>,
     tmp |-> {}, ret |-> "", result |-> "", parent |-> "", arch |-> NoArchive,
     snap |-> NoSnapshot, content |-> Verbatim("")]

\* readIndex: the parsed file, or an empty index when it cannot be read.
readIndex(f) == IF f.present THEN f.snaps ELSE {}

\* index.snapshots[name]
Lookup(idx, name) == {s \in idx : s.name = name}
\* index.snapshots[snapshot.name] = snapshot
Put(idx, snap) == {s \in idx : s.name # snap.name} \cup {snap}

StoreInit ==
    /\ indexFile = [present |-> FALSE, snaps |-> {}]
    /\ snapDirs = {}
    /\ hostFiles = {HostFile(HostSid(1), Verbatim("chat"), "host"),
                    HostFile(HostSid(2), Verbatim("bare"), "host")}
    /\ hostIndex = [state |-> "ok", entries |-> <<HostSid(1), HostSid(2)>>]
    /\ pc = [p \in Procs |-> "idle"]
    /\ loc = [p \in Procs |-> NoLoc]
    /\ nextId = 0
    /\ started = 0

\* ---- steps common to the operations ----

Goto(p, where, l) ==
    /\ pc' = [pc EXCEPT ![p] = where]
    /\ loc' = [loc EXCEPT ![p] = l]
    /\ UNCHANGED <<trimVars, hookVars, auxVars>>

\* What the caller of an operation is left with: its arguments, the ids it
\* generated, its result, and the archive an export wrote.
Returned(l, r) ==
    [NoLoc EXCEPT !.op = l.op, !.name = l.name, !.bname = l.bname, !.sid = l.sid,
                  !.dir = l.dir, !.mode = l.mode, !.result = r,
                  !.arch = IF l.op = "exportSnapshot" THEN l.arch ELSE NoArchive]

\* The operation returns (r = "ok") or throws (r names the error).
Done(p, r, l) ==
    /\ pc' = [pc EXCEPT ![p] = "idle"]
    /\ loc' = [loc EXCEPT ![p] = Returned(l, r)]
    /\ UNCHANGED <<trimVars, hookVars, auxVars>>

Begin(p, first, l) ==
    /\ pc[p] = "idle"
    /\ started < MaxOps
    /\ started' = started + 1
    /\ Goto(p, first, l)

\* atomicWrite returns to its caller: the operation goes on at loc.ret, or is over.
AwReturn(p) ==
    IF loc[p].ret = "done" THEN Done(p, "ok", loc[p]) ELSE Goto(p, loc[p].ret, loc[p])

\* atomicWrite: fs.writeFile(tmpFile, content)
AwWrite(p) ==
    /\ pc[p] = "aw_write"
    /\ \/ Goto(p, "aw_rename", loc[p])
       \/ Done(p, "error:io", loc[p])
    /\ UNCHANGED <<indexFile, snapDirs, hostFiles, hostIndex, nextId, started>>

\* atomicWrite: fs.rename(tmpFile, filePath); it can fail when the target exists.
AwRename(p) ==
    /\ pc[p] = "aw_rename"
    /\ \/ /\ indexFile' = [present |-> TRUE, snaps |-> loc[p].tmp]
          /\ AwReturn(p)
       \/ /\ indexFile.present
          /\ indexFile' = indexFile
          /\ Goto(p, "aw_unlink", loc[p])
    /\ UNCHANGED <<snapDirs, hostFiles, hostIndex, nextId, started>>

\* atomicWrite, in the catch: fs.unlink(filePath), its own failure ignored
AwUnlink(p) ==
    /\ pc[p] = "aw_unlink"
    /\ indexFile' = [present |-> FALSE, snaps |-> {}]
    /\ Goto(p, "aw_rename2", loc[p])
    /\ UNCHANGED <<snapDirs, hostFiles, hostIndex, nextId, started>>

\* atomicWrite, in the catch: the second fs.rename(tmpFile, filePath)
AwRename2(p) ==
    /\ pc[p] = "aw_rename2"
    /\ \/ /\ indexFile' = [present |-> TRUE, snaps |-> loc[p].tmp]
          /\ AwReturn(p)
       \/ /\ indexFile' = indexFile
          /\ Done(p, "error:io", loc[p])
    /\ UNCHANGED <<snapDirs, hostFiles, hostIndex, nextId, started>>

\* initialize(): fs.access(indexPath); an empty index is written when it fails.
Initialize(p, here, next) ==
    /\ pc[p] = here
    /\ IF indexFile.present
       THEN Goto(p, next, loc[p])
       ELSE Goto(p, "aw_write", [loc[p] EXCEPT !.tmp = {}, !.ret = next])
    /\ UNCHANGED <<indexFile, snapDirs, hostFiles, hostIndex, nextId, started>>

\* ---- createSnapshot ----

StartCreateSnapshot(p) ==
    /\ \E name \in Names, f \in hostFiles :
          Begin(p, "cs_init", [NoLoc EXCEPT !.op = "createSnapshot", !.name = name,
                                            !.sid = f.sid])
    /\ UNCHANGED <<indexFile, snapDirs, hostFiles, hostIndex, nextId>>

CsInit(p) == Initialize(p, "cs_init", "cs_validate")

\* validateSnapshotName (the name must be free), then findSession
CsValidate(p) ==
    /\ pc[p] = "cs_validate"
    /\ IF Lookup(readIndex(indexFile), loc[p].name) # {}
       THEN Done(p, "error:SnapshotExists", loc[p])
       ELSE IF \A f \in hostFiles : f.sid # loc[p].sid
       THEN Done(p, "error:SessionNotFound", loc[p])
       ELSE Goto(p, "cs_copy", loc[p])
    /\ UNCHANGED <<indexFile, snapDirs, hostFiles, hostIndex, nextId, started>>

\* generateSnapshotId, fs.mkdir(sessionDir), fs.copyFile; on a failed copy
\* the directory is removed again and the operation throws.
CsCopy(p) ==
    /\ pc[p] = "cs_copy"
    /\ nextId < MaxIds
    /\ nextId' = nextId + 1
    /\ \/ \E f \in hostFiles :
            /\ f.sid = loc[p].sid
            /\ snapDirs' = snapDirs \cup {SnapDir(nextId', f.sid, f.content, TRUE, FALSE)}
            /\ Goto(p, "cs_parent", [loc[p] EXCEPT !.dir = nextId'])
       \/ /\ snapDirs' = snapDirs
          /\ Done(p, "error:io", loc[p])
    /\ UNCHANGED <<indexFile, hostFiles, hostIndex, started>>

\* The parent: a snapshot one of whose branches is the source session.
ParentOf(idx, sid) ==
    LET owners == {s \in idx : \E i \in 1..Len(s.branches) : s.branches[i].sid = sid}
    IN  IF owners = {} THEN "" ELSE (CHOOSE s \in owners : TRUE).name

CsParent(p) ==
    /\ pc[p] = "cs_parent"
    /\ Goto(p, "cs_meta", [loc[p] EXCEPT !.parent = ParentOf(readIndex(indexFile), loc[p].sid)])
    /\ UNCHANGED <<indexFile, snapDirs, hostFiles, hostIndex, nextId, started>>

\* fs.writeFile(meta.json)
CsMeta(p) ==
    /\ pc[p] = "cs_meta"
    /\ \/ /\ snapDirs' = {IF d.id = loc[p].dir THEN WithMeta(d, loc[p].name, loc[p].parent) ELSE d :
                            d \in snapDirs}
          /\ Goto(p, "cs_add", loc[p])
       \/ /\ snapDirs' = snapDirs
          /\ Done(p, "error:io", loc[p])
    /\ UNCHANGED <<indexFile, hostFiles, hostIndex, nextId, started>>

\* addSnapshot: readIndex, index.snapshots[name] = snapshot, writeIndex
addSnapshot(p, here, snap) ==
    /\ pc[p] = here
    /\ Goto(p, "aw_write", [loc[p] EXCEPT !.tmp = Put(readIndex(indexFile), snap),
                                          !.ret = "done"])
    /\ UNCHANGED <<indexFile, snapDirs, hostFiles, hostIndex, nextId, started>>

CsAdd(p) ==
    addSnapshot(p, "cs_add", Snapshot(loc[p].name, loc[p].dir, loc[p].sid, loc[p].parent))

\* ---- deleteSnapshot ----

StartDeleteSnapshot(p) ==
    /\ \E name \in Names : Begin(p, "ds_get", [NoLoc EXCEPT !.op = "deleteSnapshot", !.name = name])
    /\ UNCHANGED <<indexFile, snapDirs, hostFiles, hostIndex, nextId>>

\* getSnapshot(name)
DsGet(p) ==
    /\ pc[p] = "ds_get"
    /\ LET found == Lookup(readIndex(indexFile), loc[p].name)
       IN  IF found = {} THEN Done(p, "error:SnapshotNotFound", loc[p])
           ELSE Goto(p, "ds_rm", [loc[p] EXCEPT !.dir = (CHOOSE s \in found : TRUE).dir])
    /\ UNCHANGED <<indexFile, snapDirs, hostFiles, hostIndex, nextId, started>>

\* fs.rm(snapshotDir, { recursive, force })
DsRm(p) ==
    /\ pc[p] = "ds_rm"
    /\ snapDirs' = {d \in snapDirs : d.id # loc[p].dir}
    /\ Goto(p, "ds_remove", loc[p])
    /\ UNCHANGED <<indexFile, hostFiles, hostIndex, nextId, started>>

\* removeSnapshot: readIndex, delete index.snapshots[name], writeIndex
DsRemove(p) ==
    /\ pc[p] = "ds_remove"
    /\ LET idx == readIndex(indexFile)
       IN  IF Lookup(idx, loc[p].name) = {} THEN Done(p, "ok", loc[p])
           ELSE Goto(p, "aw_write", [loc[p] EXCEPT !.tmp = {s \in idx : s.name # loc[p].name},
                                                   !.ret = "done"])
    /\ UNCHANGED <<indexFile, snapDirs, hostFiles, hostIndex, nextId, started>>

\* ---- importSnapshot ----

StartImportSnapshot(p) ==
    /\ \E arch \in Archives, rename \in {""} \cup Names, force \in BOOLEAN :
          Begin(p, "im_init",
                [NoLoc EXCEPT !.op = "importSnapshot", !.arch = arch, !.force = force,
                              !.name = IF rename # "" THEN rename ELSE arch.name])
    /\ UNCHANGED <<indexFile, snapDirs, hostFiles, hostIndex, nextId>>

ImInit(p) == Initialize(p, "im_init", "im_get")

\* existing = getSnapshot(name): a conflict throws unless force is given
ImGet(p) ==
    /\ pc[p] = "im_get"
    /\ LET existing == Lookup(readIndex(indexFile), loc[p].name)
       IN  IF existing = {} THEN Goto(p, "im_validate", loc[p])
           ELSE IF ~loc[p].force THEN Done(p, "error:SnapshotExists", loc[p])
           ELSE Goto(p, "im_rmold", [loc[p] EXCEPT !.dir = (CHOOSE s \in existing : TRUE).dir])
    /\ UNCHANGED <<indexFile, snapDirs, hostFiles, hostIndex, nextId, started>>

\* fs.rm(existingDir, { recursive, force })
ImRmOld(p) ==
    /\ pc[p] = "im_rmold"
    /\ snapDirs' = {d \in snapDirs : d.id # loc[p].dir}
    /\ Goto(p, "im_extract", loc[p])
    /\ UNCHANGED <<indexFile, hostFiles, hostIndex, nextId, started>>

\* validateSnapshotName(name), when no snapshot of that name was found
ImValidate(p) ==
    /\ pc[p] = "im_validate"
    /\ IF Lookup(readIndex(indexFile), loc[p].name) # {} /\ ~loc[p].force
       THEN Done(p, "error:SnapshotExists", loc[p])
       ELSE Goto(p, "im_extract", loc[p])
    /\ UNCHANGED <<indexFile, snapDirs, hostFiles, hostIndex, nextId, started>>

\* The directory the entries of an archive are written to: meta.json as it is
\* in the archive, and the session file when the writing got that far.
Extracted(id, a, hasFile) ==
    WithMeta(SnapDir(id, a.sid, [key |-> a.key, trimmed |-> a.trimmed], hasFile, FALSE),
             a.name, a.parent)

\* generateSnapshotId, then every entry written under the new directory:
\* meta.json first, session/<id>.jsonl after it.
ImExtract(p) ==
    /\ pc[p] = "im_extract"
    /\ nextId < MaxIds
    /\ nextId' = nextId + 1
    /\ LET a == loc[p].arch
       IN  \/ /\ snapDirs' = snapDirs \cup {Extracted(nextId', a, TRUE)}
              /\ Goto(p, "im_parent", [loc[p] EXCEPT !.dir = nextId'])
           \/ /\ snapDirs' = snapDirs \cup {Extracted(nextId', a, FALSE)}
              /\ Done(p, "error:io", [loc[p] EXCEPT !.dir = nextId'])
    /\ UNCHANGED <<indexFile, hostFiles, hostIndex, started>>

\* meta.parent_snapshot is cleared when no snapshot of that name exists locally.
ImParent(p) ==
    /\ pc[p] = "im_parent"
    /\ LET parent == loc[p].arch.parent
       IN  Goto(p, "im_add",
                [loc[p] EXCEPT !.parent =
                    IF parent # "" /\ Lookup(readIndex(indexFile), parent) = {}
                    THEN "" ELSE parent])
    /\ UNCHANGED <<indexFile, snapDirs, hostFiles, hostIndex, nextId, started>>

ImAdd(p) ==
    addSnapshot(p, "im_add", Snapshot(loc[p].name, loc[p].dir, loc[p].arch.sid, loc[p].parent))

\* ---- exportSnapshot ----

\* collectFiles, createTar and gzip of a snapshot directory holding meta.json
\* and session/<sid>.jsonl, read back by gunzip and extractTar: the entries'
\* paths (under 100 bytes) and contents as they are in the directory.
exportOf(d) ==
    [name |-> d.mname, sid |-> d.sid, parent |-> d.mparent,
     key |-> d.content.key, trimmed |-> d.content.trimmed]

StartExportSnapshot(p) ==
    /\ \E name \in Names :
          Begin(p, "ex_get", [NoLoc EXCEPT !.op = "exportSnapshot", !.name = name])
    /\ UNCHANGED <<indexFile, snapDirs, hostFiles, hostIndex, nextId>>

\* snapshot = getSnapshot(name), or the operation throws
ExGet(p) ==
    /\ pc[p] = "ex_get"
    /\ LET found == Lookup(readIndex(indexFile), loc[p].name)
       IN  IF found = {} THEN Done(p, "error:SnapshotNotFound", loc[p])
           ELSE Goto(p, "ex_collect", [loc[p] EXCEPT !.dir = (CHOOSE s \in found : TRUE).dir])
    /\ UNCHANGED <<indexFile, snapDirs, hostFiles, hostIndex, nextId, started>>

\* collectFiles(snapshotDir) and createTar: readdir throws when the directory is gone
ExCollect(p) ==
    /\ pc[p] = "ex_collect"
    /\ LET dirs == {d \in snapDirs : d.id = loc[p].dir /\ d.hasFile /\ d.meta}
       IN  IF dirs = {} THEN Done(p, "error:io", [loc[p] EXCEPT !.arch = NoArchive])
           ELSE Goto(p, "ex_write", [loc[p] EXCEPT !.arch = exportOf(CHOOSE d \in dirs : TRUE)])
    /\ UNCHANGED <<indexFile, snapDirs, hostFiles, hostIndex, nextId, started>>

\* fs.writeFile(outFile, gzipped): the caller is left with the archive, or with an error
ExWrite(p) ==
    /\ pc[p] = "ex_write"
    /\ \/ Done(p, "ok", loc[p])
       \/ Done(p, "error:io", [loc[p] EXCEPT !.arch = NoArchive])
    /\ UNCHANGED <<indexFile, snapDirs, hostFiles, hostIndex, nextId, started>>

\* importSnapshot of the archive the process has just exported, under its own
\* name or renamed, without force.
RoundTripNames == Names \cup {"c"}

StartImportExported(p) ==
    /\ loc[p].op = "exportSnapshot"
    /\ loc[p].result = "ok"
    /\ \E rename \in {""} \cup RoundTripNames :
          Begin(p, "im_init",
                [NoLoc EXCEPT !.op = "importSnapshot", !.arch = loc[p].arch, !.force = FALSE,
                              !.name = IF rename # "" THEN rename ELSE loc[p].arch.name])
    /\ UNCHANGED <<indexFile, snapDirs, hostFiles, hostIndex, nextId>>

\* ---- createBranch ----

BranchNames == {"x"}

\* generateBranchName: the snapshot name and the minute of the clock.
generateBranchName(snapshotName) == snapshotName \o "-now"

\* checkHasConversation with every parsed line taken for a message.
checkHasConversationAnyLine(lines) ==
    \E i \in 1..Len(lines) : lines[i].kind = "json"

\* checkHasConversation: true at the first line that parses and is a user or
\* assistant record; blank and unparsable lines are passed over.
checkHasConversation(lines) ==
    \E i \in 1..Len(lines) :
        /\ lines[i].kind = "json"
        /\ \/ lines[i].type \in {"user", "assistant", "human"}
           \/ lines[i].role \in {"user", "assistant"}

StartCreateBranch(p) ==
    /\ \E name \in Names, bname \in BranchNames \cup {""}, trim \in BOOLEAN,
          mode \in {"launch", "noLaunch", "dryRun"} :
          Begin(p, "cb_get", [NoLoc EXCEPT !.op = "createBranch", !.name = name,
                                           !.bname = bname, !.trim = trim, !.mode = mode])
    /\ UNCHANGED <<indexFile, snapDirs, hostFiles, hostIndex, nextId>>

\* getSnapshot(params.snapshotName)
CbGet(p) ==
    /\ pc[p] = "cb_get"
    /\ LET found == Lookup(readIndex(indexFile), loc[p].name)
       IN  IF found = {} THEN Done(p, "error:SnapshotNotFound", loc[p])
           ELSE Goto(p, "cb_check", [loc[p] EXCEPT !.snap = CHOOSE s \in found : TRUE])
    /\ UNCHANGED <<indexFile, snapDirs, hostFiles, hostIndex, nextId, started>>

\* The snapshot's session file, when it is on disk.
SessionFiles(snap) ==
    {d \in snapDirs : d.id = snap.dir /\ d.sid = snap.src /\ d.hasFile}

\* fs.access(snapshotJsonlPath), checkHasConversation, the branch name, the
\* new session id; a dry run returns here.
CbCheck(p) ==
    /\ pc[p] = "cb_check"
    /\ LET files == SessionFiles(loc[p].snap)
       IN  IF files = {}
           THEN Done(p, "error:SnapshotCorrupt", loc[p]) /\ nextId' = nextId
           ELSE IF ~checkHasConversation(FileLines((CHOOSE d \in files : TRUE).content))
           THEN Done(p, "error:NoConversationContent", loc[p]) /\ nextId' = nextId
           ELSE /\ nextId < MaxIds
                /\ nextId' = nextId + 1
                /\ LET l == [loc[p] EXCEPT
                                !.bname = IF @ # "" THEN @ ELSE generateBranchName(loc[p].name),
                                !.sid = NewSid(nextId')]
                   IN  IF l.mode = "dryRun" THEN Done(p, "ok", l) ELSE Goto(p, "cb_copy", l)
    /\ UNCHANGED <<indexFile, snapDirs, hostFiles, hostIndex, started>>

\* The file createBranch writes for the new session, from the snapshot's file.
BranchContent(p, files) ==
    [key |-> (CHOOSE d \in files : TRUE).content.key, trimmed |-> loc[p].trim]

\* trimJsonl's createWriteStream(destPath), or fs.copyFile opening its
\* destination: the file is there under its final name, written in part.
CbOpen(p) ==
    /\ pc[p] = "cb_copy"
    /\ LET files == SessionFiles(loc[p].snap)
       IN  \/ /\ files # {}
              /\ hostFiles' = hostFiles \cup
                    {PartFile(loc[p].sid, BranchContent(p, files), "engine")}
              /\ Goto(p, "cb_write", loc[p])
           \/ /\ hostFiles' = hostFiles
              /\ Done(p, "error:io", loc[p])
    /\ UNCHANGED <<indexFile, snapDirs, hostIndex, nextId, started>>

\* The rest of trimJsonl(snapshotJsonlPath, destJsonlPath) or fs.copyFile:
\* the last byte is written, or the write fails.  A failed trimJsonl leaves
\* what it wrote; a failed fs.copyFile tries to remove its destination.
CbCopy(p) ==
    /\ pc[p] = "cb_write"
    /\ \/ /\ hostFiles' = {IF f.sid = loc[p].sid THEN [f EXCEPT !.written = "whole"] ELSE f :
                               f \in hostFiles}
          /\ Goto(p, "cb_usi_read", loc[p])
       \/ /\ hostFiles' = hostFiles
          /\ Done(p, "error:io", loc[p])
       \/ /\ ~loc[p].trim
          /\ hostFiles' = {f \in hostFiles : f.sid # loc[p].sid}
          /\ Done(p, "error:io", loc[p])
    /\ UNCHANGED <<indexFile, snapDirs, hostIndex, nextId, started>>

\* updateSessionsIndex: fs.readFile + JSON.parse (a new index when that
\* fails), then fs.stat(jsonlPath)
CbUsiRead(p) ==
    /\ pc[p] = "cb_usi_read"
    /\ IF \A f \in hostFiles : f.sid # loc[p].sid
       THEN Done(p, "error:hostIndex", loc[p])
       ELSE Goto(p, "cb_usi_write",
                 [loc[p] EXCEPT !.hidx = IF hostIndex.state = "ok" THEN hostIndex.entries
                                         ELSE <<>>])
    /\ UNCHANGED <<indexFile, snapDirs, hostFiles, hostIndex, nextId, started>>

\* updateSessionsIndex with a failed write swallowed, as removeFromSessionsIndex
\* swallows its own.
CbUsiWriteSwallowed(p) ==
    /\ pc[p] = "cb_usi_write"
    /\ \/ hostIndex' = [state |-> "ok", entries |-> Append(loc[p].hidx, loc[p].sid)]
       \/ hostIndex' \in {hostIndex, [state |-> "corrupt", entries |-> <<>>]}
    /\ Goto(p, "cb_add", loc[p])
    /\ UNCHANGED <<indexFile, snapDirs, hostFiles, nextId, started>>

\* updateSessionsIndex: index.entries.push(...), fs.writeFile(indexPath, ...)
\* in place; a failed write leaves the old file or a truncated one.
CbUsiWrite(p) ==
    /\ pc[p] = "cb_usi_write"
    /\ \/ /\ hostIndex' = [state |-> "ok", entries |-> Append(loc[p].hidx, loc[p].sid)]
          /\ Goto(p, "cb_add", loc[p])
       \/ /\ hostIndex' \in {hostIndex, [state |-> "corrupt", entries |-> <<>>]}
          /\ Done(p, "error:hostIndex", loc[p])
    /\ UNCHANGED <<indexFile, snapDirs, hostFiles, nextId, started>>

\* addBranch: readIndex, snapshot.branches.push(branch), writeIndex
CbAdd(p) ==
    /\ pc[p] = "cb_add"
    /\ LET idx == readIndex(indexFile)
           found == Lookup(idx, loc[p].name)
       IN  IF found = {} THEN Done(p, "error:index", loc[p])
           ELSE LET s == CHOOSE s \in found : TRUE
                    t == [s EXCEPT !.branches = Append(@, Branch(loc[p].bname, loc[p].sid))]
                IN  Goto(p, "aw_write",
                         [loc[p] EXCEPT !.tmp = Put(idx, t),
                                        !.ret = IF loc[p].mode = "noLaunch" THEN "done"
                                                ELSE "cb_launch"])
    /\ UNCHANGED <<indexFile, snapDirs, hostFiles, hostIndex, nextId, started>>

\* spawnClaudeInteractive: the CLI runs and exits with 0, or not
CbLaunch(p) ==
    /\ pc[p] = "cb_launch"
    /\ \/ Done(p, "ok", loc[p])
       \/ Done(p, "error:launch", loc[p])
    /\ UNCHANGED <<indexFile, snapDirs, hostFiles, hostIndex, nextId, started>>

\* ---- deleteBranch ----

FirstIndex(branches, bname) ==
    LET hits == {i \in 1..Len(branches) : branches[i].name = bname}
    IN  IF hits = {} THEN 0 ELSE CHOOSE i \in hits : \A j \in hits : i <= j

RemoveAt(s, i) == SubSeq(s, 1, i - 1) \o SubSeq(s, i + 1, Len(s))

StartDeleteBranch(p) ==
    /\ \E name \in Names, bname \in BranchNames \cup {generateBranchName(n) : n \in Names} :
          Begin(p, "db_get", [NoLoc EXCEPT !.op = "deleteBranch", !.name = name, !.bname = bname])
    /\ UNCHANGED <<indexFile, snapDirs, hostFiles, hostIndex, nextId>>

\* getSnapshot, snapshot.branches.find, findProjectDir
DbGet(p) ==
    /\ pc[p] = "db_get"
    /\ LET found == Lookup(readIndex(indexFile), loc[p].name)
       IN  IF found = {} THEN Done(p, "error:SnapshotNotFound", loc[p])
           ELSE LET s == CHOOSE s \in found : TRUE
                    i == FirstIndex(s.branches, loc[p].bname)
                IN  IF i = 0 THEN Done(p, "error:BranchNotFound", loc[p])
                    ELSE Goto(p, "db_unlink", [loc[p] EXCEPT !.sid = s.branches[i].sid])
    /\ UNCHANGED <<indexFile, snapDirs, hostFiles, hostIndex, nextId, started>>

\* deleteBranch unlinking the transcript of the snapshot's source session.
DbUnlinkSource(p) ==
    /\ pc[p] = "db_unlink"
    /\ hostFiles' = {f \in hostFiles :
                        \A s \in Lookup(readIndex(indexFile), loc[p].name) : f.sid # s.src}
    /\ Goto(p, "db_hidx_read", loc[p])
    /\ UNCHANGED <<indexFile, snapDirs, hostIndex, nextId, started>>

\* fs.unlink(jsonlPath), a missing file ignored
DbUnlink(p) ==
    /\ pc[p] = "db_unlink"
    /\ hostFiles' = {f \in hostFiles : f.sid # loc[p].sid}
    /\ Goto(p, "db_hidx_read", loc[p])
    /\ UNCHANGED <<indexFile, snapDirs, hostIndex, nextId, started>>

\* removeFromSessionsIndex: fs.readFile + JSON.parse; nothing more when that fails
DbHidxRead(p) ==
    /\ pc[p] = "db_hidx_read"
    /\ IF hostIndex.state = "ok"
       THEN Goto(p, "db_hidx_write",
                 [loc[p] EXCEPT !.hidx = SelectSeq(hostIndex.entries,
                                                   LAMBDA e : e # loc[p].sid)])
       ELSE Goto(p, "db_remove", loc[p])
    /\ UNCHANGED <<indexFile, snapDirs, hostFiles, hostIndex, nextId, started>>

\* removeFromSessionsIndex: fs.writeFile in place, its failure swallowed
DbHidxWrite(p) ==
    /\ pc[p] = "db_hidx_write"
    /\ hostIndex' \in {[state |-> "ok", entries |-> loc[p].hidx], hostIndex,
                       [state |-> "corrupt", entries |-> <<>>]}
    /\ Goto(p, "db_remove", loc[p])
    /\ UNCHANGED <<indexFile, snapDirs, hostFiles, nextId, started>>

\* removeBranch: readIndex, findIndex, splice, writeIndex
DbRemove(p) ==
    /\ pc[p] = "db_remove"
    /\ LET idx == readIndex(indexFile)
           found == Lookup(idx, loc[p].name)
       IN  IF found = {} THEN Done(p, "ok", loc[p])
           ELSE LET s == CHOOSE s \in found : TRUE
                    i == FirstIndex(s.branches, loc[p].bname)
                IN  IF i = 0 THEN Done(p, "ok", loc[p])
                    ELSE Goto(p, "aw_write",
                              [loc[p] EXCEPT !.tmp = Put(idx, [s EXCEPT !.branches = RemoveAt(@, i)]),
                                             !.ret = "done"])
    /\ UNCHANGED <<indexFile, snapDirs, hostFiles, hostIndex, nextId, started>>

\* ---- deleteSession ----

\* The dashboard's "delete session", on one of the sessions it lists.
StartDeleteSession(p) ==
    /\ \E f \in hostFiles :
          Begin(p, "dsn_unlink", [NoLoc EXCEPT !.op = "deleteSession", !.sid = f.sid])
    /\ UNCHANGED <<indexFile, snapDirs, hostFiles, hostIndex, nextId>>

\* fs.unlink(jsonlPath), a missing file ignored; then fs.rm of the session's
\* subdirectory.
DsnUnlink(p) ==
    /\ pc[p] = "dsn_unlink"
    /\ hostFiles' = {f \in hostFiles : f.sid # loc[p].sid}
    /\ Goto(p, "dsn_hidx_read", loc[p])
    /\ UNCHANGED <<indexFile, snapDirs, hostIndex, nextId, started>>

\* fs.readFile + JSON.parse of sessions-index.json; nothing more when that fails
DsnHidxRead(p) ==
    /\ pc[p] = "dsn_hidx_read"
    /\ IF hostIndex.state = "ok"
       THEN Goto(p, "dsn_hidx_write",
                 [loc[p] EXCEPT !.hidx = SelectSeq(hostIndex.entries,
                                                   LAMBDA e : e # loc[p].sid)])
       ELSE Done(p, "ok", loc[p])
    /\ UNCHANGED <<indexFile, snapDirs, hostFiles, hostIndex, nextId, started>>

\* fs.writeFile of sessions-index.json in place, its failure swallowed
DsnHidxWrite(p) ==
    /\ pc[p] = "dsn_hidx_write"
    /\ hostIndex' \in {[state |-> "ok", entries |-> loc[p].hidx], hostIndex,
                       [state |-> "corrupt", entries |-> <<>>]}
    /\ Done(p, "ok", loc[p])
    /\ UNCHANGED <<indexFile, snapDirs, hostFiles, nextId, started>>

(***************************************************************************)
(* The auto-trim hook: `cmv auto-trim [--check-size]`, run by the host     *)
(* with a JSON object on stdin.  One step per await of the action.         *)
(***************************************************************************)

MaxHookRuns == 2

DEFAULT_SIZE_THRESHOLD == 600000
DEFAULT_TRIM_THRESHOLD == 500
DEFAULT_MAX_BACKUPS == 5
\* logTrim keeps the newest 50 entries.
MaxLogEntries == 50

\* An optional field of the autoTrim config, and `field ?? d`.
NotGiven == NoThreshold
Given(n) == Threshold(n)
OrDefault(o, d) == IF o.given THEN o.value ELSE d

\* What the hook finds on stdin: a terminal, nothing within STDIN_TIMEOUT, a
\* stream error, text that is not JSON, the JSON `null`, an object without
\* session_id or transcript_path, an object with both.
StdinCases == {"tty", "timeout", "error", "garbage", "null", "nofields", "ok"}

\* input.session_id, and the session of somebody else's backups.
HookSid == "s1"
OtherSid == "s2"

\* A file of transcript lines, and a path with no file.
File(lines) == [present |-> TRUE, lines |-> lines]
NoFile == [present |-> FALSE, lines |-> <<>>]

\* An auto-backups/<sessionId>_<timestamp>.jsonl
Backup(sid, ts, lines) == [sid |-> sid, ts |-> ts, lines |-> lines]

\* No other execution of the hook: at is where it is, src the lines its
\* trimmer has read, fd where the file its write stream holds open is.
NoOther == [at |-> "none", src |-> <<>>, fd |-> "none"]

\* readConfig(): config.autoTrim, {} when the file is missing or unparsable.
HookConfigs ==
    {[maxBackups |-> m, sizeThresholdBytes |-> s, threshold |-> NotGiven] :
        m \in {NotGiven, Given(0), Given(1)}, s \in {NotGiven, Given(300)}}

HookInit ==
    /\ hookPc = "idle"
    /\ stdin = "ok"
    /\ checkSize = FALSE
    /\ config \in HookConfigs
    /\ transcript \in {NoFile, File(Content("chat")),
                       File(<<UserLine, ToolUseLine, BigResultLine>>)}
    /\ tmpFile = NoFile
    /\ backups \in {{}, {Backup(HookSid, 0, Content("chat")),
                         Backup(OtherSid, 0, Content("chat"))}}
    /\ trimLog = 0
    /\ clock = 1
    /\ exitCode = 0
    /\ hookRuns = 0
    /\ other = NoOther

\* No hook execution.
HookIdle ==
    /\ hookPc = "idle"
    /\ stdin = "ok"
    /\ checkSize = FALSE
    /\ config = [maxBackups |-> NotGiven, sizeThresholdBytes |-> NotGiven,
                 threshold |-> NotGiven]
    /\ transcript = NoFile
    /\ tmpFile = NoFile
    /\ backups = {}
    /\ trimLog = 0
    /\ clock = 1
    /\ exitCode = 0
    /\ hookRuns = 0
    /\ other = NoOther

\* process.exit(code), or the exit of a process brought down by an uncaught exception.
HkExit(code) ==
    /\ hookPc' = "exited"
    /\ exitCode' = code
    /\ UNCHANGED <<trimVars, storeVars, auxVars>>
\* The action goes on at its next await.
HkGoto(where) ==
    /\ hookPc' = where
    /\ exitCode' = exitCode
    /\ UNCHANGED <<trimVars, storeVars, auxVars>>

\* The host runs the hook; the clock (milliseconds) may not have moved since
\* the last execution.
HkInvoke ==
    /\ hookPc \in {"idle", "exited"}
    /\ hookRuns < MaxHookRuns
    /\ hookRuns' = hookRuns + 1
    /\ stdin' \in StdinCases
    /\ checkSize' \in BOOLEAN
    /\ clock' \in {clock, clock + 1}
    /\ HkGoto("stdin")
    /\ UNCHANGED <<config, transcript, tmpFile, backups, trimLog, other>>

\* readStdinWithTimeout(STDIN_TIMEOUT): a rejection lands in the action's catch.
HkReadStdin ==
    /\ hookPc = "stdin"
    /\ IF stdin \in {"tty", "timeout", "error"} THEN HkExit(0) ELSE HkGoto("parse")
    /\ UNCHANGED <<stdin, checkSize, config, transcript, tmpFile, backups, trimLog,
                   clock, hookRuns, other>>

\* JSON.parse(stdinRaw) and the test of input.session_id, input.transcript_path;
\* the property read of `null` throws into the catch.
HkParse ==
    /\ hookPc = "parse"
    /\ IF stdin = "ok" THEN HkGoto("access") ELSE HkExit(0)
    /\ UNCHANGED <<stdin, checkSize, config, transcript, tmpFile, backups, trimLog,
                   clock, hookRuns, other>>

\* fs.access(transcriptPath), then readConfig()
HkAccess ==
    /\ hookPc = "access"
    /\ IF ~transcript.present THEN HkExit(0)
       ELSE HkGoto(IF checkSize THEN "size" ELSE "backup")
    /\ UNCHANGED <<stdin, checkSize, config, transcript, tmpFile, backups, trimLog,
                   clock, hookRuns, other>>

\* opts.checkSize: fs.stat(transcriptPath).size < sizeThreshold
HkCheckSize ==
    /\ hookPc = "size"
    /\ IF FileSize(transcript.lines, TRUE)
            < OrDefault(config.sizeThresholdBytes, DEFAULT_SIZE_THRESHOLD)
       THEN HkExit(0)
       ELSE HkGoto("backup")
    /\ UNCHANGED <<stdin, checkSize, config, transcript, tmpFile, backups, trimLog,
                   clock, hookRuns, other>>

\* saveBackup(sessionId, sourcePath): fs.copyFile onto <sessionId>_<timestamp>.jsonl,
\* or the throw of fs.mkdir / fs.copyFile.
saveBackup(sid, ts, lines) ==
    {b \in backups : ~(b.sid = sid /\ b.ts = ts)} \cup {Backup(sid, ts, lines)}

HkSaveBackup ==
    /\ hookPc = "backup"
    /\ \/ backups' = saveBackup(HookSid, clock, transcript.lines) /\ HkGoto("rotate")
       \/ backups' = backups /\ HkExit(0)
    /\ UNCHANGED <<stdin, checkSize, config, transcript, tmpFile, trimLog, clock, hookRuns, other>>

\* listBackups(sessionId): the session's backups, the newest first; newerThan is
\* the position of b in that list.
listBackups(sid) == {b \in backups : b.sid = sid}
NewerThan(b) == Cardinality({c \in listBackups(b.sid) : c.ts > b.ts})
\* backups.slice(maxKeep)
ToDelete(sid, maxKeep) == {b \in listBackups(sid) : NewerThan(b) >= maxKeep}

\* rotateBackups(sessionId, maxKeep) when fs.unlink throws for the files of
\* failed: what is left in auto-backups/, and the number it returns.
rotateBackupsCountingAttempts(sid, maxKeep, failed) ==
    [backups |-> (backups \ ToDelete(sid, maxKeep)) \cup failed,
     deleted |-> Cardinality(ToDelete(sid, maxKeep))]
rotateBackups(sid, maxKeep, failed) ==
    [backups |-> (backups \ ToDelete(sid, maxKeep)) \cup failed,
     deleted |-> Cardinality(ToDelete(sid, maxKeep) \ failed)]

\* rotateBackups(input.session_id, config.maxBackups ?? 5), its result dropped.
HkRotate ==
    /\ hookPc = "rotate"
    /\ \E failed \in SUBSET ToDelete(HookSid, OrDefault(config.maxBackups, DEFAULT_MAX_BACKUPS)) :
          backups' = rotateBackups(HookSid, OrDefault(config.maxBackups, DEFAULT_MAX_BACKUPS),
                                   failed).backups
    /\ HkGoto("trim")
    /\ UNCHANGED <<stdin, checkSize, config, transcript, tmpFile, trimLog, clock, hookRuns, other>>

\* trimJsonl(transcriptPath, tmpPath, {threshold}).  The write stream gets its
\* 'error' listener only after the last line was written: an error it emits
\* before that is an uncaught exception (the process exits with status 1), one
\* it emits after rejects the promise (the catch exits with status 0).  A
\* failure before createWriteStream opened tmpPath leaves what was at the path;
\* one after it leaves the file the stream created there, here with nothing
\* written yet.
HkTrim ==
    /\ hookPc = "trim"
    /\ \/ /\ tmpFile' = File(trimJsonl([lines |-> transcript.lines, eofNl |-> TRUE],
                                       Given(OrDefault(config.threshold,
                                                       DEFAULT_TRIM_THRESHOLD))).out)
          /\ HkGoto("rename")
       \/ /\ tmpFile' \in {tmpFile, File(<<>>)}
          /\ \E code \in {0, 1} : HkExit(code)
    /\ UNCHANGED <<stdin, checkSize, config, transcript, backups, trimLog, clock, hookRuns, other>>

\* Where the file a writer holds open is after the file at tmpPath was renamed
\* over the transcript: the open file moves with the rename, and the file that
\* was the transcript is gone.
Renamed(fd) == IF fd = "tmp" THEN "transcript" ELSE IF fd = "transcript" THEN "gone" ELSE fd

\* fs.rename(tmpPath, transcriptPath), or its throw.
HkRename ==
    /\ hookPc = "rename"
    /\ \/ /\ transcript' = tmpFile /\ tmpFile' = NoFile
          /\ other' = [other EXCEPT !.fd = Renamed(@)]
          /\ HkGoto("log")
       \/ UNCHANGED <<transcript, tmpFile, other>> /\ HkExit(0)
    /\ UNCHANGED <<stdin, checkSize, config, backups, trimLog, clock, hookRuns>>

\* logTrim(entry), or the throw of entries.unshift / fs.writeFile; then process.exit(0).
HkLog ==
    /\ hookPc = "log"
    /\ \/ trimLog' = IF trimLog < MaxLogEntries THEN trimLog + 1 ELSE MaxLogEntries
       \/ trimLog' = trimLog
    /\ HkExit(0)
    /\ UNCHANGED <<stdin, checkSize, config, transcript, tmpFile, backups, clock, hookRuns, other>>

HookNext ==
    \/ HkInvoke
    \/ HkReadStdin
    \/ HkParse
    \/ HkAccess
    \/ HkCheckSize
    \/ HkSaveBackup
    \/ HkRotate
    \/ HkTrim
    \/ HkRename
    \/ HkLog

(***************************************************************************)
(* The hook's neighbours on the transcript: the host appending to it, and  *)
(* a second execution of the hook (PostToolUse and PreCompact can overlap).*)
(***************************************************************************)

MaxTranscriptLines == 4

\* One transcript, the default configuration, no backups yet.
SharedInit(otherAt) ==
    /\ hookPc = "idle"
    /\ stdin = "ok"
    /\ checkSize = FALSE
    /\ config = [maxBackups |-> NotGiven, sizeThresholdBytes |-> Given(300),
                 threshold |-> NotGiven]
    /\ transcript \in {File(Content("chat")), File(<<UserLine, ToolUseLine, BigResultLine>>)}
    /\ tmpFile = NoFile
    /\ backups = {}
    /\ trimLog = 0
    /\ clock = 1
    /\ exitCode = 0
    /\ hookRuns = 0
    /\ other = [NoOther EXCEPT !.at = otherAt]

\* The host assistant appends a record (a user message) to the transcript.
HostAppend ==
    /\ transcript.present
    /\ Len(transcript.lines) < MaxTranscriptLines
    /\ transcript' = File(Append(transcript.lines, UserLine))
    /\ UNCHANGED <<hookPc, stdin, checkSize, config, tmpFile, backups, trimLog, clock,
                   exitCode, hookRuns, other>>
    /\ UNCHANGED <<trimVars, storeVars, auxVars>>

\* The steps of the other execution leave the first one's own state alone.
OtherStep ==
    /\ UNCHANGED <<hookPc, stdin, checkSize, config, backups, trimLog, clock, exitCode,
                   hookRuns>>
    /\ UNCHANGED <<trimVars, storeVars, auxVars>>

\* The other execution up to trimJsonl's streams: fs.access(transcriptPath), then
\* (backup and rotation as in HkSaveBackup and HkRotate) createReadStream on the
\* transcript and createWriteStream(tmpPath), which creates or truncates it.
OtOpen ==
    /\ other.at = "idle"
    /\ IF transcript.present
       THEN /\ other' = [at |-> "writing", src |-> transcript.lines, fd |-> "tmp"]
            /\ tmpFile' = File(<<>>)
       ELSE /\ other' = [other EXCEPT !.at = "exited"]
            /\ tmpFile' = tmpFile
    /\ transcript' = transcript
    /\ OtherStep

\* Lines written from the start of a file over what the file holds.
Overlay(cur, out) == out \o SubSeq(cur, Len(out) + 1, Len(cur))

\* The other execution writes its output through its open stream and ends
\* it, wherever the file is by now; or its trimmer fails.
OtWrite ==
    /\ other.at = "writing"
    /\ \/ /\ other' = [other EXCEPT !.at = "rename", !.fd = "none"]
          /\ \E out \in {trimJsonl([lines |-> other.src, eofNl |-> TRUE],
                                    Given(OrDefault(config.threshold,
                                                    DEFAULT_TRIM_THRESHOLD))).out} :
                CASE other.fd = "tmp" ->
                        /\ tmpFile' = File(Overlay(tmpFile.lines, out))
                        /\ transcript' = transcript
                  [] other.fd = "transcript" ->
                        /\ transcript' = File(Overlay(transcript.lines, out))
                        /\ tmpFile' = tmpFile
                  [] OTHER -> UNCHANGED <<transcript, tmpFile>>
       \/ /\ other' = [other EXCEPT !.at = "exited", !.fd = "none"]
          /\ UNCHANGED <<transcript, tmpFile>>
    /\ OtherStep

\* The other execution's fs.rename(tmpPath, transcriptPath): it throws when
\* nothing is at tmpPath, and the catch exits.
OtRename ==
    /\ other.at = "rename"
    /\ IF tmpFile.present
       THEN transcript' = tmpFile /\ tmpFile' = NoFile
       ELSE UNCHANGED <<transcript, tmpFile>>
    /\ other' = [other EXCEPT !.at = "exited"]
    /\ OtherStep

(***************************************************************************)
(* rotateBackups called on its own                                         *)
(***************************************************************************)

MaxBackupFiles == 5
MaxKeep == 3

\* auto-backups/ holding backups of the session made at some of the instants
\* 1..MaxBackupFiles, and possibly a later one of another session.
RotateInit ==
    /\ \E T \in SUBSET (1..MaxBackupFiles), foreign \in BOOLEAN :
          backups = {Backup(HookSid, t, Content("chat")) : t \in T}
                       \cup (IF foreign THEN {Backup(OtherSid, MaxBackupFiles, Content("chat"))}
                                      ELSE {})
    /\ \E n \in 0..MaxKeep :
          rotation = [state |-> "ready", maxKeep |-> n, before |-> backups, deleted |-> 0]
    /\ hookPc = "idle"
    /\ stdin = "ok"
    /\ checkSize = FALSE
    /\ config = [maxBackups |-> NotGiven, sizeThresholdBytes |-> NotGiven,
                 threshold |-> NotGiven]
    /\ transcript = NoFile
    /\ tmpFile = NoFile
    /\ trimLog = 0
    /\ clock = MaxBackupFiles + 1
    /\ exitCode = 0
    /\ hookRuns = 0
    /\ other = NoOther

\* deleted = await rotateBackups(sessionId, maxKeep)
RotateCall ==
    /\ rotation.state = "ready"
    /\ \E failed \in SUBSET ToDelete(HookSid, rotation.maxKeep) :
          /\ backups' = rotateBackups(HookSid, rotation.maxKeep, failed).backups
          /\ rotation' = [rotation EXCEPT
                             !.state = "done",
                             !.deleted = rotateBackups(HookSid, rotation.maxKeep, failed).deleted]
    /\ UNCHANGED <<hookPc, stdin, checkSize, config, transcript, tmpFile, trimLog, clock,
                   exitCode, hookRuns, other>>
    /\ UNCHANGED <<trimVars, storeVars, capture, watchVars>>

(***************************************************************************)
(* createSnapshot: is the source session active                            *)
(***************************************************************************)

TwoMinutes == 2 * 60 * 1000

\* The files of the IDE lock directory: a .lock file whose JSON has the pid of
\* a running process, of a process that is gone, or no pid; a .lock file that
\* cannot be read or parsed; a file of another name.
LockKinds == {"livePid", "deadPid", "noPid", "unreadable", "notLock"}

\* isSessionActive(entry): fileMtime is entry.fileMtime || 0; lockDir says
\* whether fs.readdir of the lock directory succeeds.
isSessionActive(now, fileMtime, lockDir, locks) ==
    IF fileMtime < now - TwoMinutes THEN FALSE
    ELSE IF lockDir /\ (\E k \in locks : k \in {"livePid", "deadPid"}) THEN TRUE
    ELSE TRUE

\* Date.now(): any instant later than two minutes
CaptureNow == TwoMinutes + 80000
CaptureInit ==
    \E m \in {0, CaptureNow - TwoMinutes - 1, CaptureNow - TwoMinutes,
                CaptureNow - TwoMinutes + 1, CaptureNow},
       dir \in BOOLEAN, ls \in SUBSET LockKinds :
        capture = [NoCapture EXCEPT !.state = "found", !.now = CaptureNow, !.fileMtime = m,
                                    !.lockDir = dir, !.locks = IF dir THEN ls ELSE {}]

\* active = await isSessionActive(session); a warning when it is
CsActive ==
    /\ capture.state = "found"
    /\ LET active == isSessionActive(capture.now, capture.fileMtime, capture.lockDir,
                                     capture.locks)
       IN  capture' = [capture EXCEPT !.state = "checked", !.active = active,
                                      !.warnings = IF active THEN 1 ELSE 0]
    /\ UNCHANGED <<trimVars, storeVars, hookVars, rotation, watchVars>>

\* The rest of createSnapshot: the record gets session_active_at_capture =
\* active, unless a later step throws.
CsRecord ==
    /\ capture.state = "checked"
    /\ \/ capture' = [capture EXCEPT !.state = "created",
                                      !.session_active_at_capture = capture.active]
       \/ capture' = [capture EXCEPT !.state = "failed"]
    /\ UNCHANGED <<trimVars, storeVars, hookVars, rotation, watchVars>>

NextCapture == CsActive \/ CsRecord

(***************************************************************************)
(* SessionWatcher: the messages of a transcript that is being appended to. *)
(* Offsets are counted in lines: the host appends whole lines.             *)
(***************************************************************************)

MaxAppends == 3
DEFAULT_MAX_MESSAGES == 200

\* The content parseJsonMessage looks at: message.content when the record has
\* a message, the record's own content otherwise.
WatchedContent(l) ==
    IF l.mstr # NoVal THEN [str |-> TRUE, arr |-> <<>>]
    ELSE IF l.hasMc THEN [str |-> FALSE, arr |-> l.mc]
    ELSE [str |-> FALSE, arr |-> l.c]

\* parseLine and parseJsonMessage: the type of the WatchedMessage, "" for null.
parseLine(l) ==
    IF l.kind # "json" THEN ""
    ELSE IF l.type \in {"file-history-snapshot", "queue-operation", "usage"} THEN ""
    ELSE IF l.type \in {"human", "user"} \/ l.role = "user"
    THEN IF WatchedContent(l).str
            \/ (\E i \in 1..Len(WatchedContent(l).arr) :
                    WatchedContent(l).arr[i].type = "text")
         THEN "user" ELSE ""
    ELSE IF l.type = "assistant" \/ l.role = "assistant"
    THEN IF WatchedContent(l).str
            \/ (\E i \in 1..Len(WatchedContent(l).arr) :
                    WatchedContent(l).arr[i].type \in {"text", "tool_use"})
         THEN "assistant" ELSE ""
    ELSE IF l.type = "tool_result"
    THEN IF l.hasC THEN "tool-result" ELSE ""
    ELSE IF l.type \in {"system", "summary"} THEN "system"
    ELSE ""

\* The messages of the lines from+1..to of the file, each with the number of
\* its line (its text).
RECURSIVE MessagesOf(_, _, _)
MessagesOf(lines, from, to) ==
    IF from >= to THEN <<>>
    ELSE LET rest == MessagesOf(lines, from + 1, to)
         IN  IF parseLine(lines[from + 1]) = "" THEN rest
             ELSE <<[type |-> parseLine(lines[from + 1]), line |-> from + 1]>> \o rest

\* trimMessages: messages.slice(-maxMessages)
trimMessages(msgs, maxMessages) ==
    IF Len(msgs) > maxMessages
    THEN SubSeq(msgs, Len(msgs) - maxMessages + 1, Len(msgs))
    ELSE msgs

WatchAlphabet == {UserLine, AssistantLine, ToolResultLine, FileHistoryLine}

\* After start(): readExisting has read the file as it was, fs.watch is set.
WatchInit ==
    /\ jsonl \in {<<>>, <<UserLine>>}
    /\ \E m \in {2, DEFAULT_MAX_MESSAGES} :
          watcher = [NewWatcher(m) EXCEPT
                        !.messages = trimMessages(MessagesOf(jsonl, 0, Len(jsonl)), m),
                        !.bytesRead = Len(jsonl),
                        !.watching = TRUE]

Watch(w) ==
    /\ watcher' = w
    /\ UNCHANGED <<trimVars, storeVars, hookVars, rotation, capture>>

\* The host appends a record; fs.watch will call back.
WtAppend ==
    /\ Len(jsonl) < MaxAppends
    /\ \E l \in WatchAlphabet : jsonl' = Append(jsonl, l)
    /\ Watch([watcher EXCEPT !.event = watcher.watching])

\* The callback of fs.watch: clearTimeout, setTimeout(() => this.readNew(), 100)
WtEvent ==
    /\ watcher.event
    /\ jsonl' = jsonl
    /\ Watch([watcher EXCEPT !.event = FALSE, !.debounceTimer = TRUE])

\* The timer fires: readNew() is called and runs up to its first await.
WtTimer ==
    /\ watcher.debounceTimer
    /\ jsonl' = jsonl
    /\ Watch([watcher EXCEPT
                 !.debounceTimer = FALSE,
                 !.called = @ + 1,
                 !.calls = @ \cup {[id |-> watcher.called + 1, at |-> "stat",
                                    size |-> 0, start |-> 0]}])

\* readNew: stat = await fsPromises.stat(path); nothing to do if size <= bytesRead;
\* else createReadStream(path, {start: this.bytesRead})
RnStat ==
    /\ \E c \in watcher.calls :
          /\ c.at = "stat"
          /\ IF Len(jsonl) <= watcher.bytesRead
             THEN Watch([watcher EXCEPT !.calls = @ \ {c}])
             ELSE Watch([watcher EXCEPT
                           !.calls = (@ \ {c}) \cup
                                     {[c EXCEPT !.at = "read", !.size = Len(jsonl),
                                                !.start = watcher.bytesRead]}])
    /\ jsonl' = jsonl

\* readNew: the stream is read from start to the end the file has by now, each
\* message pushed; bytesRead = stat.size; trimMessages.  Or the read throws.
RnRead ==
    /\ \E c \in watcher.calls :
          /\ c.at = "read"
          /\ \/ Watch([watcher EXCEPT
                         !.calls = @ \ {c},
                         !.bytesRead = c.size,
                         !.messages = trimMessages(@ \o MessagesOf(jsonl, c.start, Len(jsonl)),
                                                   watcher.maxMessages)])
             \/ Watch([watcher EXCEPT !.calls = @ \ {c}])
    /\ jsonl' = jsonl

NextWatch == WtAppend \/ WtEvent \/ WtTimer \/ RnStat \/ RnRead

(***************************************************************************)
(* Specifications                                                          *)
(***************************************************************************)

\* The steps of the operations run by the processes of P.
StoreNext(P) ==
    \/ \E p \in P : StartCreateSnapshot(p)
    \/ \E p \in P : CsInit(p)
    \/ \E p \in P : CsValidate(p)
    \/ \E p \in P : CsCopy(p)
    \/ \E p \in P : CsParent(p)
    \/ \E p \in P : CsMeta(p)
    \/ \E p \in P : CsAdd(p)
    \/ \E p \in P : StartDeleteSnapshot(p)
    \/ \E p \in P : DsGet(p)
    \/ \E p \in P : DsRm(p)
    \/ \E p \in P : DsRemove(p)
    \/ \E p \in P : StartImportSnapshot(p)
    \/ \E p \in P : ImInit(p)
    \/ \E p \in P : ImGet(p)
    \/ \E p \in P : ImRmOld(p)
    \/ \E p \in P : ImValidate(p)
    \/ \E p \in P : ImExtract(p)
    \/ \E p \in P : ImParent(p)
    \/ \E p \in P : ImAdd(p)
    \/ \E p \in P : StartCreateBranch(p)
    \/ \E p \in P : CbGet(p)
    \/ \E p \in P : CbCheck(p)
    \/ \E p \in P : CbOpen(p)
    \/ \E p \in P : CbCopy(p)
    \/ \E p \in P : CbUsiRead(p)
    \/ \E p \in P : CbUsiWrite(p)
    \/ \E p \in P : CbAdd(p)
    \/ \E p \in P : CbLaunch(p)
    \/ \E p \in P : StartDeleteBranch(p)
    \/ \E p \in P : DbGet(p)
    \/ \E p \in P : DbUnlink(p)
    \/ \E p \in P : DbHidxRead(p)
    \/ \E p \in P : DbHidxWrite(p)
    \/ \E p \in P : DbRemove(p)
    \/ \E p \in P : StartDeleteSession(p)
    \/ \E p \in P : DsnUnlink(p)
    \/ \E p \in P : DsnHidxRead(p)
    \/ \E p \in P : DsnHidxWrite(p)
    \/ \E p \in P : AwWrite(p)
    \/ \E p \in P : AwRename(p)
    \/ \E p \in P : AwUnlink(p)
    \/ \E p \in P : AwRename2(p)

\* No trimmer run: the store's operations on their own.
TrimIdle ==
    /\ src = [lines |-> <<>>, eofNl |-> TRUE]
    /\ opt = NoThreshold
    /\ phase = "idle"
    /\ dst = <<>> /\ metrics = ZeroMetrics
    /\ dst2 = <<>> /\ metrics2 = ZeroMetrics
    /\ analysis = ZeroAnalysis

\* One operation at a time (the writers of the index are mutually exclusive).
Init == StoreInit /\ TrimIdle /\ HookIdle /\ AuxIdle
Next == StoreNext({MainProc})
Spec == Init /\ [][Next]_vars

\* A store in which snapshot "a" of the host session and its branch "x" were
\* made, one operation ago.
BranchedInit ==
    /\ indexFile = [present |-> TRUE,
                    snaps |-> {[Snapshot("a", 1, HostSid(1), "") EXCEPT
                                   !.branches = <<Branch("x", NewSid(2))>>]}]
    /\ snapDirs = {WithMeta(SnapDir(1, HostSid(1), Verbatim("chat"), TRUE, FALSE), "a", "")}
    /\ hostFiles = {HostFile(HostSid(1), Verbatim("chat"), "host"),
                    HostFile(HostSid(2), Verbatim("bare"), "host"),
                    HostFile(NewSid(2), Verbatim("chat"), "engine")}
    /\ hostIndex = [state |-> "ok", entries |-> <<HostSid(1), HostSid(2), NewSid(2)>>]
    /\ pc = [p \in Procs |-> "idle"]
    /\ loc = [p \in Procs |-> NoLoc]
    /\ nextId = 2
    /\ started = 1

\* Stores to export from, each one to three operations after the empty one:
\* archive "b" imported while its parent "a" was absent and "a" snapshotted
\* after it; or "a", its branch "x", and "b" snapshotted from that branch; or
\* archive "a" imported under the name "b".
ImportedThenParent ==
    /\ indexFile = [present |-> TRUE,
                    snaps |-> {Snapshot("b", 1, HostSid(1), ""),
                               Snapshot("a", 2, HostSid(1), "")}]
    /\ snapDirs = {WithMeta(SnapDir(1, HostSid(1), Verbatim("chat"), TRUE, FALSE), "b", "a"),
                   WithMeta(SnapDir(2, HostSid(1), Verbatim("chat"), TRUE, FALSE), "a", "")}
    /\ hostFiles = {HostFile(HostSid(1), Verbatim("chat"), "host"),
                    HostFile(HostSid(2), Verbatim("bare"), "host")}
    /\ hostIndex = [state |-> "ok", entries |-> <<HostSid(1), HostSid(2)>>]
    /\ nextId = 2

SnapshotOfBranch ==
    /\ indexFile = [present |-> TRUE,
                    snaps |-> {[Snapshot("a", 1, HostSid(1), "") EXCEPT
                                   !.branches = <<Branch("x", NewSid(2))>>],
                               Snapshot("b", 3, NewSid(2), "a")}]
    /\ snapDirs = {WithMeta(SnapDir(1, HostSid(1), Verbatim("chat"), TRUE, FALSE), "a", ""),
                   WithMeta(SnapDir(3, NewSid(2), Verbatim("chat"), TRUE, FALSE), "b", "a")}
    /\ hostFiles = {HostFile(HostSid(1), Verbatim("chat"), "host"),
                    HostFile(HostSid(2), Verbatim("bare"), "host"),
                    HostFile(NewSid(2), Verbatim("chat"), "engine")}
    /\ hostIndex = [state |-> "ok", entries |-> <<HostSid(1), HostSid(2), NewSid(2)>>]
    /\ nextId = 3

ImportedRenamed ==
    /\ indexFile = [present |-> TRUE, snaps |-> {Snapshot("b", 1, HostSid(1), "")}]
    /\ snapDirs = {WithMeta(SnapDir(1, HostSid(1), Verbatim("chat"), TRUE, FALSE), "a", "")}
    /\ hostFiles = {HostFile(HostSid(1), Verbatim("chat"), "host"),
                    HostFile(HostSid(2), Verbatim("bare"), "host")}
    /\ hostIndex = [state |-> "ok", entries |-> <<HostSid(1), HostSid(2)>>]
    /\ nextId = 1

RoundTripInit ==
    /\ ImportedThenParent \/ SnapshotOfBranch \/ ImportedRenamed
    /\ pc = [p \in Procs |-> "idle"]
    /\ loc = [p \in Procs |-> NoLoc]
    /\ started = 1

InitRoundTrip == RoundTripInit /\ TrimIdle /\ HookIdle /\ AuxIdle

\* Export of a snapshot and import of the archive it wrote.
NextRoundTrip ==
    \/ StartExportSnapshot(MainProc)
    \/ ExGet(MainProc)
    \/ ExCollect(MainProc)
    \/ ExWrite(MainProc)
    \/ StartImportExported(MainProc)
    \/ ImInit(MainProc)
    \/ ImGet(MainProc)
    \/ ImValidate(MainProc)
    \/ ImExtract(MainProc)
    \/ ImParent(MainProc)
    \/ ImAdd(MainProc)
    \/ AwWrite(MainProc)
    \/ AwRename(MainProc)
    \/ AwUnlink(MainProc)
    \/ AwRename2(MainProc)

SpecRoundTrip == InitRoundTrip /\ [][NextRoundTrip]_vars

\* Two processes, each running the operations that add to the index or take a
\* branch out of it, their steps interleaved at every filesystem call.
NextConcurrent ==
    \/ \E p \in Procs : StartCreateSnapshot(p)
    \/ \E p \in Procs : CsInit(p)
    \/ \E p \in Procs : CsValidate(p)
    \/ \E p \in Procs : CsCopy(p)
    \/ \E p \in Procs : CsParent(p)
    \/ \E p \in Procs : CsMeta(p)
    \/ \E p \in Procs : CsAdd(p)
    \/ \E p \in Procs : StartCreateBranch(p)
    \/ \E p \in Procs : CbGet(p)
    \/ \E p \in Procs : CbCheck(p)
    \/ \E p \in Procs : CbOpen(p)
    \/ \E p \in Procs : CbCopy(p)
    \/ \E p \in Procs : CbUsiRead(p)
    \/ \E p \in Procs : CbUsiWrite(p)
    \/ \E p \in Procs : CbAdd(p)
    \/ \E p \in Procs : CbLaunch(p)
    \/ \E p \in Procs : StartDeleteBranch(p)
    \/ \E p \in Procs : DbGet(p)
    \/ \E p \in Procs : DbUnlink(p)
    \/ \E p \in Procs : DbHidxRead(p)
    \/ \E p \in Procs : DbHidxWrite(p)
    \/ \E p \in Procs : DbRemove(p)
    \/ \E p \in Procs : AwWrite(p)
    \/ \E p \in Procs : AwRename(p)
    \/ \E p \in Procs : AwUnlink(p)
    \/ \E p \in Procs : AwRename2(p)
InitConcurrent == BranchedInit /\ TrimIdle /\ HookIdle /\ AuxIdle
SpecConcurrent == InitConcurrent /\ [][NextConcurrent]_vars

\* Runs of the trimmer on its own.
InitTrim == TrimInit /\ StoreInit /\ HookIdle /\ AuxIdle
SpecTrim == InitTrim /\ [][TrimNext]_vars

\* Runs of the analyzer on its own.
InitAnalyze == AnalyzeInit /\ StoreInit /\ HookIdle /\ AuxIdle
SpecAnalyze == InitAnalyze /\ [][Analyze]_vars

\* The hook on a transcript the host appends to.
InitHookHost == SharedInit("none") /\ TrimIdle /\ StoreInit /\ AuxIdle
SpecHookHost == InitHookHost /\ [][HookNext \/ HostAppend]_vars

\* Two executions of the hook on one transcript.
InitHookOverlap == SharedInit("idle") /\ TrimIdle /\ StoreInit /\ AuxIdle
SpecHookOverlap == InitHookOverlap /\ [][HookNext \/ OtOpen \/ OtWrite \/ OtRename]_vars

\* One call of rotateBackups on a directory of backups.
InitRotate == RotateInit /\ TrimIdle /\ StoreInit /\ capture = NoCapture /\ WatchIdle
SpecRotate == InitRotate /\ [][RotateCall]_vars

\* createSnapshot deciding whether its source session is active.
InitCapture ==
    CaptureInit /\ rotation = NoRotation /\ WatchIdle /\ TrimIdle /\ StoreInit /\ HookIdle
SpecCapture == InitCapture /\ [][NextCapture]_vars

\* A started SessionWatcher and the host appending to the watched file.
InitWatch ==
    WatchInit /\ rotation = NoRotation /\ capture = NoCapture
        /\ TrimIdle /\ StoreInit /\ HookIdle
SpecWatch == InitWatch /\ [][NextWatch]_vars

\* Executions of the auto-trim hook on one transcript.
InitHook == HookInit /\ TrimIdle /\ StoreInit /\ AuxIdle
SpecHook == InitHook /\ [][HookNext]_vars

(***************************************************************************)
(* Properties of the store                                                 *)
(***************************************************************************)

\* What a reader of index.json gets at this instant is readIndex(indexFile).

\* The process p is inside atomicWrite, at one of its two renames.
Renaming(p) == pc[p] \in {"aw_rename", "aw_rename2"}

\* C1: while a write of the master index is in progress, the fallback path
\* included, a read returns the complete index as it was before the write or
\* the complete index as the write leaves it: every step leaves index.json
\* as it was or puts the writer's complete new index in its place, and never
\* leaves it missing.
C1_AtomicIndexReads ==
    [][\/ indexFile' = indexFile
       \/ \E p \in Procs :
             Renaming(p) /\ indexFile' = [present |-> TRUE, snaps |-> loc[p].tmp]]_vars

\* C2: in every state a reader can observe, every snapshot record of
\* index.json has a snapshot_dir that exists under the snapshots root.
C2_SnapshotDirsExist ==
    \A s \in readIndex(indexFile) : \E d \in snapDirs : d.id = s.dir

HasSnapshot(idx, name, dir) == \E s \in idx : s.name = name /\ s.dir = dir
HasBranch(idx, sid) == \E s \in idx : \E i \in 1..Len(s.branches) : s.branches[i].sid = sid

\* The effect on the index of the operation p ran last and returned from.
EffectInIndex(p) ==
    CASE loc[p].op = "createSnapshot" ->
            HasSnapshot(readIndex(indexFile), loc[p].name, loc[p].dir)
      [] loc[p].op = "createBranch" /\ loc[p].mode # "dryRun" ->
            HasBranch(readIndex(indexFile), loc[p].sid)
      [] loc[p].op = "deleteBranch" -> ~HasBranch(readIndex(indexFile), loc[p].sid)
      [] OTHER -> TRUE

Succeeded(p) == pc[p] = "idle" /\ loc[p].result = "ok"

\* C3: when operations of two processes each update the master index, in any
\* interleaving of their reads and writes, and both return successfully, the
\* index holds the effect of both.  (Two operations on the same record are
\* left aside: two snapshots of one name, a branch and its deletion.)
SameRecordOps(p, q) ==
    \/ loc[p].op = "createSnapshot" /\ loc[q].op = "createSnapshot"
          /\ loc[p].name = loc[q].name
    \/ loc[p].op = "createBranch" /\ loc[q].op = "deleteBranch" /\ loc[p].sid = loc[q].sid

C3_NoLostUpdate ==
    \A p, q \in Procs :
        (/\ p # q
         /\ Succeeded(p) /\ Succeeded(q)
         /\ ~SameRecordOps(p, q) /\ ~SameRecordOps(q, p))
        => EffectInIndex(p) /\ EffectInIndex(q)

InHostLayout(sid) == \E f \in hostFiles : f.sid = sid
InHostIndex(sid) ==
    hostIndex.state = "ok" /\ \E i \in 1..Len(hostIndex.entries) : hostIndex.entries[i] = sid

\* C4: in create_branch, at the step where the branch record of the new
\* session first becomes visible in index.json, the materialized transcript
\* exists and the host sessions-index.json holds the entry of the new session.
C4_BranchRecordLast ==
    [][\A p \in Procs :
          (/\ loc[p].op = "createBranch"
           /\ ~HasBranch(readIndex(indexFile), loc[p].sid)
           /\ HasBranch(readIndex(indexFile'), loc[p].sid))
          => InHostLayout(loc[p].sid) /\ InHostIndex(loc[p].sid)]_vars

\* A create_branch returned normally and its branch record is in the index.
C4_Witness ==
    \E p \in Procs :
        /\ Succeeded(p) /\ loc[p].op = "createBranch"
        /\ HasBranch(readIndex(indexFile), loc[p].sid)
        /\ InHostLayout(loc[p].sid) /\ InHostIndex(loc[p].sid)

\* C5: a create_branch that failed at the host sessions-index update or at
\* the master-index update leaves no transcript of the new session under
\* the host layout.
C5_FailedBranchLeavesNoFile ==
    \A p \in Procs :
        (/\ pc[p] = "idle" /\ loc[p].op = "createBranch"
         /\ loc[p].result \in {"error:hostIndex", "error:index", "error:io"})
        => ~InHostLayout(loc[p].sid)

\* C12: while create_branch (with or without trim) runs, and after it failed
\* midway, no file under the host layout holds only part of its output: the
\* destination does not exist or holds the complete output.
C12_NoPartialDestination ==
    \A f \in hostFiles : f.written = "whole"

\* The snapshot's JSONL is there and holds no user or assistant message.
NoConversation(snap) ==
    /\ SessionFiles(snap) # {}
    /\ \A d \in SessionFiles(snap) :
          \A i \in 1..Len(FileLines(d.content)) :
              /\ ~IsUserMessage(FileLines(d.content)[i])
              /\ ~IsAssistantMessage(FileLines(d.content)[i])

\* C6: create_branch on a snapshot whose JSONL holds no user or assistant
\* message fails with NoConversationContent, and up to that failure no file
\* was created under the host layout and neither the host sessions-index.json
\* nor the master index changed.
C6_NoConversationFails ==
    [][\A p \in Procs :
          /\ pc[p] \in {"cb_get", "cb_check"}
                => UNCHANGED <<hostFiles, hostIndex, indexFile>>
          /\ (pc[p] = "cb_check" /\ NoConversation(loc[p].snap))
                => /\ pc'[p] = "idle"
                   /\ loc'[p].result = "error:NoConversationContent"]_vars

\* A create_branch on such a snapshot has failed.
C6_Witness ==
    \E p \in Procs :
        /\ pc[p] = "idle" /\ loc[p].op = "createBranch"
        /\ loc[p].result = "error:NoConversationContent"
        /\ \E s \in readIndex(indexFile) : s.name = loc[p].name /\ NoConversation(s)

\* C15: every parent_snapshot of the index that is not null names a snapshot
\* of the index.
C15_ParentsPresent ==
    \A s \in readIndex(indexFile) :
        s.parent # "" => Lookup(readIndex(indexFile), s.parent) # {}

\* The parent_snapshot names of the snapshots named in S.
ParentsOf(idx, S) == {s.parent : s \in {t \in idx : t.name \in S}} \ {""}
\* The names reached from S by one to k parent_snapshot links.
RECURSIVE AncestorsWithin(_, _, _)
AncestorsWithin(idx, S, k) ==
    IF k = 0 THEN {}
    ELSE ParentsOf(idx, S) \cup AncestorsWithin(idx, ParentsOf(idx, S), k - 1)

\* C16: the parent_snapshot links of the index form no cycle: no snapshot is
\* reached from itself by following them.
C16_ParentLinksAcyclic ==
    \A s \in readIndex(indexFile) :
        s.name \notin AncestorsWithin(readIndex(indexFile), {s.name},
                                       Cardinality(readIndex(indexFile)))

\* C17: no two branch records of one snapshot have the same name.
C17_BranchNamesUnique ==
    \A s \in readIndex(indexFile) :
        \A i, j \in 1..Len(s.branches) :
            i # j => s.branches[i].name # s.branches[j].name

\* C18: the snapshot a successful create_snapshot or import_snapshot has
\* registered has its session/<source_session_id>.jsonl, and that file holds
\* a user or assistant message.
C18_SnapshotHasConversation ==
    \A p \in Procs :
        (Succeeded(p) /\ loc[p].op \in {"createSnapshot", "importSnapshot"}) =>
            \A s \in readIndex(indexFile) :
                (s.name = loc[p].name /\ s.dir = loc[p].dir) =>
                    \E d \in SessionFiles(s) : checkHasConversation(FileLines(d.content))

BlocksOf(l) == (IF l.hasMc THEN l.mc ELSE <<>>) \o (IF l.hasC THEN l.c ELSE <<>>)

IdsOf(l, blockType) ==
    {BlocksOf(l)[j].id : j \in {k \in 1..Len(BlocksOf(l)) : BlocksOf(l)[k].type = blockType}}

\* Every tool_result of the file has a tool_use of the same id in the file.
OrphanFree(lines) ==
    \A i \in 1..Len(lines) : \A id \in IdsOf(lines[i], "tool_result") :
        \E j \in 1..Len(lines) : id \in IdsOf(lines[j], "tool_use")

MarkerIndexes(lines) == {i \in 1..Len(lines) : IsCompactionMarker(lines[i])}

\* The 1-based index of the last compaction marker of a file that has one.
LastMarker(lines) ==
    CHOOSE i \in MarkerIndexes(lines) : \A j \in MarkerIndexes(lines) : j <= i

\* The lines from the last compaction marker on (all of them without one).
PostCompaction(lines) ==
    IF MarkerIndexes(lines) = {} THEN lines
    ELSE SubSeq(lines, LastMarker(lines), Len(lines))

\* Lines the removal taxonomy keeps: not empty, not file history, not a queue operation.
Survives(l) ==
    l.kind # "blank" /\ l.type \notin {"file-history-snapshot", "queue-operation"}

SameRecord(a, b) ==
    /\ a.kind = b.kind /\ a.type = b.type /\ a.subtype = b.subtype
    /\ a.role = b.role /\ a.len = b.len

\* The output is the surviving lines from the last marker on, the marker first.
OutputFromLastMarker ==
    LET kept == SelectSeq(PostCompaction(src.lines), Survives)
    IN  /\ Len(dst) = Len(kept)
        /\ \A i \in 1..Len(kept) : SameRecord(dst[i], kept[i])
        /\ dst # <<>> /\ IsCompactionMarker(dst[1])

IsConversation(l) == IsUserMessage(l) \/ IsAssistantMessage(l)

TextBlocks(c) == SelectSeq(c, LAMBDA b : b.type = "text")

SameConversation(a, b) ==
    /\ a.type = b.type /\ a.role = b.role /\ a.mstr = b.mstr
    /\ a.hasMc = b.hasMc /\ TextBlocks(a.mc) = TextBlocks(b.mc)
    /\ a.hasC = b.hasC /\ TextBlocks(a.c) = TextBlocks(b.c)

\* C7: when every tool_result of T has its tool_use in T, no tool_result of
\* trim(T) carries a tool_use_id whose tool_use block is absent from trim(T).
C7_OrphanFree ==
    (phase # "ready" /\ OrphanFree(src.lines)) => OrphanFree(dst)

\* C8 as stated: with a compaction marker in the source, the output starts at
\* the last marker and preCompactionLinesSkipped is the number of lines that
\* precede the last marker.
C8_SkippedCountsEveryLine ==
    (phase # "ready" /\ MarkerIndexes(src.lines) # {}) =>
        /\ OutputFromLastMarker
        /\ metrics.preCompactionLinesSkipped = LastMarker(src.lines) - 1

\* C8 amended: with a compaction marker in the source, the output starts at
\* the last marker and preCompactionLinesSkipped is the number of non-empty
\* lines that precede the last marker.
C8_SkippedCountsNonEmptyLines ==
    (phase # "ready" /\ MarkerIndexes(src.lines) # {}) =>
        /\ OutputFromLastMarker
        /\ metrics.preCompactionLinesSkipped =
              Cardinality({i \in 1..(LastMarker(src.lines) - 1) : src.lines[i].kind # "blank"})

\* The five-line scenario: markers at L2 and L4, three lines skipped, L4 and L5 written.
C8_Witness ==
    /\ phase = "trimmed"
    /\ src.lines = <<UserLine, SummaryLine, UserLine, BoundaryLine, UserLine>>
    /\ metrics.preCompactionLinesSkipped = 3
    /\ Len(dst) = 2

\* C9: the user and assistant records at or after the last compaction marker
\* are the user and assistant records of the output, in order, with type, role
\* and text blocks unchanged, and userMessages / assistantResponses count them.
C9_ConversationPreserved ==
    phase # "ready" =>
        LET post == PostCompaction(src.lines)
            conv == SelectSeq(post, IsConversation)
            out == SelectSeq(dst, IsConversation)
        IN  /\ Len(out) = Len(conv)
            /\ \A i \in 1..Len(conv) : SameConversation(out[i], conv[i])
            /\ metrics.userMessages = Len(SelectSeq(post, IsUserMessage))
            /\ metrics.assistantResponses = Len(SelectSeq(post, IsAssistantMessage))

\* A user message before the marker, an assistant message with a thinking and
\* a text block after it: one assistant response kept, its text block intact.
C9_Witness ==
    /\ phase = "trimmed"
    /\ src.lines = <<PaddedUserLine, BoundaryLine, ThinkingLine>>
    /\ metrics.assistantResponses = 1 /\ metrics.userMessages = 0
    /\ Len(dst) = 2 /\ dst[2].mc = <<TextBlock(Raw(10))>>

TrimmedBytesAt(threshold) == trimJsonl(src, Threshold(threshold)).m.trimmedBytes

\* C11 (first half): for thresholds t1 < t2, both at least 50, the output of
\* trim(T, t1) has at most as many bytes as the output of trim(T, t2).
C11_MonotoneInThreshold ==
    phase # "ready" =>
        \A t1, t2 \in {50, 100, 500} :
            t1 < t2 => TrimmedBytesAt(t1) <= TrimmedBytesAt(t2)

\* C11: for thresholds t1 < t2, both at least 50, trimmed_bytes of
\* trim(T, t1) is at most trimmed_bytes of trim(T, t2), which is at most
\* original_bytes of T: the trimmed file is never larger than the source.
C11_Monotone ==
    phase # "ready" =>
        /\ C11_MonotoneInThreshold
        /\ metrics.trimmedBytes <= metrics.originalBytes

\* C10: trimming the output again gives a file of the same size and removes nothing.
C10_Idempotent ==
    phase = "retrimmed" =>
        /\ metrics2.trimmedBytes = metrics.trimmedBytes
        /\ metrics2.toolResultsStubbed = 0
        /\ metrics2.signaturesStripped = 0
        /\ metrics2.fileHistoryRemoved = 0
        /\ metrics2.imagesStripped = 0
        /\ metrics2.toolUseInputsStubbed = 0
        /\ metrics2.preCompactionLinesSkipped = 0
        /\ metrics2.queueOperationsRemoved = 0

(***************************************************************************)
(* Properties of the auto-trim hook                                        *)
(***************************************************************************)

\* C13: every execution of the auto-trim hook ends with exit status 0, whatever
\* fails on the way (stdin, parsing, the transcript, the backup, the trimmer,
\* the rename, the log).
C13_ExitsZero == hookPc = "exited" => exitCode = 0

\* C14: when the trimmed file is renamed over the transcript, auto-backups/
\* holds a complete copy of the transcript as it was before the trim, under
\* the hook's session id.
C14_BackupAtRename ==
    [][(hookPc = "rename" /\ hookPc' = "log") =>
            \E b \in backups : b.sid = HookSid /\ b.lines = transcript.lines]_vars

\* C26: on every exit path of a hook run that trims (success, an error of the
\* trimmer, an error of the rename) the file at <transcript_path>.cmv-trim-tmp
\* is gone when the hook exits.
C26_NoTempFileAtExit == hookPc = "exited" => ~tmpFile.present

\* C28: records the host appends to the transcript while a hook run is in
\* progress, after the trimmer has read the source and before the rename,
\* are in the transcript after the hook exits: the rename of the temp file
\* over the transcript does not discard a record of the host (a user message
\* here, which the trimmer keeps as it is).
HostRecords(f) == Cardinality({i \in 1..Len(f.lines) : f.lines[i] = UserLine})

C28_RenameKeepsHostRecords ==
    [][(hookPc = "rename" /\ hookPc' = "log") =>
            HostRecords(transcript') >= HostRecords(transcript)]_vars

\* C29: with two executions of the hook on one transcript overlapping, a run
\* never renames a temp file the other is still writing (the other's open
\* file is never the transcript), and once both have exited the transcript
\* is a complete trimmer output, not a truncated one.
C29_OverlapKeepsTranscriptWhole ==
    /\ ~(other.at = "writing" /\ other.fd = "transcript")
    /\ (hookPc = "exited" /\ other.at = "exited" /\ transcript.present) =>
           transcript.lines # <<>>

(***************************************************************************)
(* Properties of the analyzer                                              *)
(***************************************************************************)

\* C20: for every transcript the bytes of the six buckets of the breakdown
\* add up to total_bytes.
C20_BucketsSumToTotal ==
    phase = "analyzed" =>
        analysis.breakdown.toolResults + analysis.breakdown.thinkingSignatures
          + analysis.breakdown.fileHistory + analysis.breakdown.conversation
          + analysis.breakdown.toolUseRequests + analysis.breakdown.other
            = analysis.totalBytes

\* The numbers of the lines analyzeSession takes for compaction markers.
AnalyzerMarkers(lines) ==
    {i \in 1..Len(lines) :
        /\ lines[i].kind = "json"
        /\ \/ lines[i].type = "summary"
           \/ lines[i].type = "system" /\ lines[i].subtype = "compact_boundary"}
LastAnalyzerMarker(lines) ==
    CHOOSE i \in AnalyzerMarkers(lines) : (\A j \in AnalyzerMarkers(lines) : j <= i)

\* C21 as stated: with a compaction marker anywhere in the transcript,
\* total_bytes is strictly less than the size of the file.
C21_TotalBelowFileSize ==
    (phase = "analyzed" /\ AnalyzerMarkers(src.lines) # {}) =>
        analysis.totalBytes < FileSize(src.lines, src.eofNl)

\* C21: with a compaction marker in the transcript, total_bytes leaves out
\* every byte before the last marker, and it is strictly less than the size of
\* the file when the file holds a newline (it has several lines or ends in one).
C21_ResetExcludesEarlierBytes ==
    (phase = "analyzed" /\ AnalyzerMarkers(src.lines) # {}) =>
        /\ analysis.totalBytes <=
              FileSize(src.lines, src.eofNl)
                 - FileSize(SubSeq(src.lines, 1, LastAnalyzerMarker(src.lines) - 1), TRUE)
        /\ (src.eofNl \/ Len(src.lines) > 1) =>
              analysis.totalBytes < FileSize(src.lines, src.eofNl)

\* An analyzed transcript of several lines whose only marker is its first line.
C21_Witness ==
    /\ phase = "analyzed"
    /\ Len(src.lines) > 1
    /\ AnalyzerMarkers(src.lines) = {1}
    /\ analysis.totalBytes > 0
\* C22: when a snapshot S is exported and the archive is imported, under a free
\* name or renamed, the snapshot registered has a session file of the same
\* content as S's, and its parent_snapshot is S's parent_snapshot if a
\* snapshot of that name is in the store and null otherwise.
ExpectedParent(idx, S, T) ==
    IF S.parent # "" /\ Lookup(idx \ {T}, S.parent) # {} THEN S.parent ELSE ""

C22_RoundTripRestores ==
    [][\A p \in Procs :
          (loc[p].op = "importSnapshot" /\ pc[p] # "idle" /\ pc'[p] = "idle"
              /\ loc'[p].result = "ok") =>
              \A S \in readIndex(indexFile) : \A d \in snapDirs :
                  (d.id = S.dir /\ S.dir # loc[p].dir /\ d.hasFile /\ d.meta
                      /\ exportOf(d) = loc[p].arch) =>
                      \E T \in Lookup(readIndex(indexFile'), loc[p].name) : \E e \in snapDirs' :
                          /\ T.dir = loc[p].dir
                          /\ e.id = T.dir
                          /\ e.hasFile
                          /\ e.sid = d.sid
                          /\ e.content = d.content
                          /\ T.parent = ExpectedParent(readIndex(indexFile'), S, T)]_vars


\* C23: after rotateBackups(sessionId, N) with k backups of the session, the
\* min(k, N) most recently made backups of the session are what remains of
\* them, the backups of other sessions are as they were, and the number
\* returned is max(0, k - N).
RotatedBefore == {b \in rotation.before : b.sid = HookSid}
MostRecent(n) ==
    {b \in RotatedBefore : Cardinality({c \in RotatedBefore : c.ts > b.ts}) < n}
OthersUntouched ==
    {b \in backups : b.sid # HookSid} = {b \in rotation.before : b.sid # HookSid}
Excess == Max(0, Cardinality(RotatedBefore) - rotation.maxKeep)

ModifiedRecently == capture.now - capture.fileMtime <= TwoMinutes
LiveLock == capture.lockDir /\ "livePid" \in capture.locks

C24_ActiveIffRecentAndLocked ==
    capture.state = "created" =>
        /\ capture.session_active_at_capture <=> (ModifiedRecently /\ LiveLock)
        /\ (capture.warnings = 1) <=> (ModifiedRecently /\ LiveLock)


\* C25: whenever createBranch or deleteBranch rewrites sessions-index.json, a
\* reader of the file finds the complete old content or the complete new
\* content, never a truncated or partly written file: every step of their
\* write leaves the file as it was or puts the complete new index in its place.
C25_HostIndexOldOrNew ==
    [][\A p \in Procs :
          (pc[p] \in {"cb_usi_write", "db_hidx_write"} /\ pc'[p] # pc[p]) =>
              \/ hostIndex' = hostIndex
              \/ /\ hostIndex'.state = "ok"
                 /\ hostIndex'.entries \in {loc[p].hidx, Append(loc[p].hidx, loc[p].sid)}]_vars


\* C27: after start(), the conversation records appended to the watched file
\* appear in getMessages() in file order and each exactly once, none skipped
\* and none delivered twice, whatever the timing of the appends relative to
\* the watcher's stat, read and debounce steps; only the oldest entries beyond
\* maxMessages are dropped.
C27_EachRecordOnceInOrder ==
    LET msgs == watcher.messages
    IN  /\ \A i, j \in 1..Len(msgs) : i < j => msgs[i].line < msgs[j].line
        /\ \A i \in 1..Len(msgs) : \A n \in 1..Len(jsonl) :
               (i > 1 /\ msgs[i - 1].line < n /\ n < msgs[i].line) => parseLine(jsonl[n]) = ""


\* C30: when createSnapshot fails at a step after it created the snapshot
\* directory (the copy of the source, the write of meta.json, the addition to
\* the master index), the directory is removed: no directory of a failed
\* createSnapshot is on disk without an entry of the index.
C30_FailedSnapshotLeavesNoDirectory ==
    \A p \in Procs :
        (pc[p] = "idle" /\ loc[p].op = "createSnapshot" /\ loc[p].result \notin {"", "ok"}) =>
            \A d \in snapDirs :
                d.id = loc[p].dir => \E snap \in readIndex(indexFile) : snap.dir = d.id


==============================================================================
